---- MODULE Spec2Model ----
(***************************************************************************)
(* Retirement-income engine: bracket calculators, Social Security          *)
(* taxability, RMD, deduction, the tax breakdown orchestrator, the         *)
(* withdrawal strategy generator with its after-tax refinement loop, and   *)
(* the multi-year projection.                                              *)
(*                                                                         *)
(* Numbers.  The engine computes on JavaScript doubles.  Here every money  *)
(* amount is an integer count of 1/SCALE dollar (half a cent), so whole    *)
(* dollars, half dollars and the 0.85 x 0.50 products of the Social        *)
(* Security formula are exact, and so is every bracket tax on a whole      *)
(* dollar amount.  A product or quotient that falls between two grid       *)
(* points is taken down to the grid point below (Frac, MulDiv); since the  *)
(* rounding threshold n + 0.5 dollars is on the grid, Math.round of such   *)
(* a value is still exact.  Rates are whole percents, ratios are counted   *)
(* in 1/RATIO (a percentage derived from a ratio in 1/RATIO of 100%).     *)
(* Infinity is the largest machine integer.                                *)
(***************************************************************************)
EXTENDS Integers, Sequences, FiniteSets, TLC

SCALE == 2 * 100
RATIO == 1000 * 1000
HALF == SCALE \div 2

Infinity == 2147483647

Usd(n) == n * SCALE

Max(a, b) == IF a >= b THEN a ELSE b
Min(a, b) == IF a <= b THEN a ELSE b
Min3(a, b, c) == Min(a, Min(b, c))
Abs(a) == IF a < 0 THEN 0 - a ELSE a

\* Infinity - x = Infinity, as for doubles
Minus(a, b) == IF a = Infinity THEN Infinity ELSE a - b

\* x * n / d taken down to the grid, for small n >= 0 and d > 0 (no overflow)
Frac(x, n, d) == (x \div d) * n + ((x % d) * n) \div d

SatAdd(x, y) == IF x >= Infinity - y THEN Infinity ELSE x + y
SatMul(x, y) == IF x = 0 \/ y = 0 THEN 0 ELSE IF x > Infinity \div y THEN Infinity ELSE x * y

\* the largest digit base b with (2b - 1) * c within the machine integer
DigitBase(c) ==
    IF c <= 2^26 THEN 16 ELSE IF c <= 2^27 THEN 8 ELSE IF c <= 2^28 THEN 4 ELSE 2

RECURSIVE DigitCount(_, _, _)
DigitCount(x, base, n) == IF x < base^n THEN n ELSE DigitCount(x, base, n + 1)

RECURSIVE MulModAcc(_, _, _, _, _, _, _)
\* (x * y) \div c for x, y < c, taking the digits of y from the most
\* significant (digit k) down; q and r are the quotient and remainder so far
MulModAcc(x, y, c, base, k, q, r) ==
    IF k < 0 \/ q < 0 \/ r < 0 THEN q
    ELSE LET t == base * r + ((y \div base^k) % base) * x
         IN  MulModAcc(x, y, c, base, k - 1, base * q + t \div c, t % c)

\* a * b / c taken toward zero, for a >= 0 and c > 0; stops at Infinity
MulDivNat(a, b, c) ==
    LET aq == a \div c
        am == a % c
        bq == b \div c
        bm == b % c
        x  == Max(am, bm)
        y  == Min(am, bm)
        lo == IF y = 0 THEN 0
              ELSE IF x <= Infinity \div y THEN (x * y) \div c
              ELSE MulModAcc(x, y, c, DigitBase(c), DigitCount(y, DigitBase(c), 1) - 1, 0, 0)
    IN  SatAdd(SatAdd(SatMul(SatMul(aq, bq), c), SatAdd(SatMul(aq, bm), SatMul(am, bq))), lo)

MulDiv(a, b, c) ==
    IF a = 0 \/ b = 0 THEN 0
    ELSE IF (a < 0) # (b < 0) THEN 0 - MulDivNat(Abs(a), Abs(b), c)
    ELSE MulDivNat(Abs(a), Abs(b), c)

\* Math.round: the nearest whole dollar, halves upward
MathRound(x) == ((x + HALF) \div SCALE) * SCALE

FilingStatus == {"single", "mfj", "mfs", "hoh"}

----
\* constants/rmdTables

RMD_START_AGE == 73

\* divisors in tenths, ages 72..120
UNIFORM_LIFETIME_TABLE ==
    [age \in 72..120 |->
        <<274, 265, 255, 246, 237, 229, 220, 211, 202, 194,
          185, 177, 168, 160, 152, 144, 137, 129, 122, 115,
          108, 101, 95, 89, 84, 78, 73, 68, 64, 60,
          56, 52, 49, 46, 43, 41, 39, 37, 35, 34,
          33, 31, 30, 29, 28, 27, 25, 23, 20>>[age - 71]]

getDistributionPeriodFirstEntry(age) ==
    IF age < RMD_START_AGE THEN 0
    ELSE IF age \in DOMAIN UNIFORM_LIFETIME_TABLE THEN UNIFORM_LIFETIME_TABLE[age]
    ELSE UNIFORM_LIFETIME_TABLE[72]

getDistributionPeriod(age) ==
    IF age < RMD_START_AGE THEN 0
    ELSE IF age \in DOMAIN UNIFORM_LIFETIME_TABLE THEN UNIFORM_LIFETIME_TABLE[age]
    ELSE UNIFORM_LIFETIME_TABLE[120]

----
\* constants/tax2026

Bracket(min, max, rate) ==
    [min |-> Usd(min), max |-> IF max = Infinity THEN Infinity ELSE Usd(max), rate |-> rate]

FEDERAL_BRACKETS ==
    [single |-> << Bracket(0, 12400, 10), Bracket(12400, 50400, 12),
                   Bracket(50400, 105700, 22), Bracket(105700, 201775, 24),
                   Bracket(201775, 256225, 32), Bracket(256225, 640600, 35),
                   Bracket(640600, Infinity, 37) >>,
     mfj    |-> << Bracket(0, 24800, 10), Bracket(24800, 100800, 12),
                   Bracket(100800, 211400, 22), Bracket(211400, 403550, 24),
                   Bracket(403550, 512450, 32), Bracket(512450, 768700, 35),
                   Bracket(768700, Infinity, 37) >>,
     mfs    |-> << Bracket(0, 12400, 10), Bracket(12400, 50400, 12),
                   Bracket(50400, 105700, 22), Bracket(105700, 201775, 24),
                   Bracket(201775, 256225, 32), Bracket(256225, 384350, 35),
                   Bracket(384350, Infinity, 37) >>,
     hoh    |-> << Bracket(0, 17700, 10), Bracket(17700, 67450, 12),
                   Bracket(67450, 105700, 22), Bracket(105700, 201775, 24),
                   Bracket(201775, 256200, 32), Bracket(256200, 640600, 35),
                   Bracket(640600, Infinity, 37) >>]

STANDARD_DEDUCTION ==
    [single |-> Usd(16100), mfj |-> Usd(32200), mfs |-> Usd(16100), hoh |-> Usd(24150)]

CAPITAL_GAINS_BRACKETS ==
    [single |-> << Bracket(0, 49450, 0), Bracket(49450, 545500, 15),
                   Bracket(545500, Infinity, 20) >>,
     mfj    |-> << Bracket(0, 98900, 0), Bracket(98900, 613700, 15),
                   Bracket(613700, Infinity, 20) >>,
     mfs    |-> << Bracket(0, 49450, 0), Bracket(49450, 306850, 15),
                   Bracket(306850, Infinity, 20) >>,
     hoh    |-> << Bracket(0, 66200, 0), Bracket(66200, 579600, 15),
                   Bracket(579600, Infinity, 20) >>]

SS_TAXATION_THRESHOLDS ==
    [single |-> [zeroThreshold |-> Usd(25000), fiftyThreshold |-> Usd(34000)],
     mfj    |-> [zeroThreshold |-> Usd(32000), fiftyThreshold |-> Usd(44000)]]

----
\* engine/taxBrackets

RECURSIVE SumAmounts(_)
SumAmounts(sources) ==
    IF sources = << >> THEN 0 ELSE Head(sources).amount + SumAmounts(Tail(sources))

\* the sources of one bracket: each source's proportional share, zero shares dropped
bracketSourcesOf(incomeSources, totalSourceAmount, incomeInBracket) ==
    IF Len(incomeSources) > 0 /\ totalSourceAmount > 0
    THEN SelectSeq(
            [i \in 1..Len(incomeSources) |->
                [account |-> incomeSources[i].account,
                 amount  |-> MulDiv(incomeInBracket, incomeSources[i].amount, totalSourceAmount)]],
            LAMBDA s : s.amount > 0)
    ELSE << >>

RECURSIVE OrdinaryWalkNoDecrement(_, _, _, _, _)
\* the loop that forgets to take the bracket's income off the remaining income
OrdinaryWalkNoDecrement(brackets, i, remainingIncome, incomeSources, acc) ==
    IF i > Len(brackets) \/ remainingIncome <= 0 THEN acc
    ELSE LET bracket         == brackets[i]
             bracketSize     == Minus(bracket.max, bracket.min)
             incomeInBracket == Min(remainingIncome, bracketSize)
             taxFromBracket  == Frac(incomeInBracket, bracket.rate, 100)
             fill == [rate            |-> bracket.rate,
                      bracketMin      |-> bracket.min,
                      bracketMax      |-> bracket.max,
                      incomeInBracket |-> incomeInBracket,
                      taxFromBracket  |-> taxFromBracket,
                      sources         |-> << >>]
         IN  OrdinaryWalkNoDecrement(brackets, i + 1,
                 IF i = 1 THEN remainingIncome ELSE remainingIncome - incomeInBracket,
                 incomeSources,
                 [tax          |-> acc.tax + taxFromBracket,
                  bracketFill  |-> Append(acc.bracketFill, fill),
                  marginalRate |-> IF incomeInBracket > 0 THEN bracket.rate
                                   ELSE acc.marginalRate])

RECURSIVE OrdinaryWalk(_, _, _, _, _)
\* the loop over the brackets from index i on; acc is the result so far
OrdinaryWalk(brackets, i, remainingIncome, incomeSources, acc) ==
    IF i > Len(brackets) \/ remainingIncome <= 0 THEN acc
    ELSE LET bracket         == brackets[i]
             bracketSize     == Minus(bracket.max, bracket.min)
             incomeInBracket == Min(remainingIncome, bracketSize)
             taxFromBracket  == Frac(incomeInBracket, bracket.rate, 100)
             fill == [rate            |-> bracket.rate,
                      bracketMin      |-> bracket.min,
                      bracketMax      |-> bracket.max,
                      incomeInBracket |-> incomeInBracket,
                      taxFromBracket  |-> taxFromBracket,
                      sources         |-> bracketSourcesOf(incomeSources,
                                              SumAmounts(incomeSources), incomeInBracket)]
         IN  OrdinaryWalk(brackets, i + 1, remainingIncome - incomeInBracket, incomeSources,
                 [tax          |-> acc.tax + taxFromBracket,
                  bracketFill  |-> Append(acc.bracketFill, fill),
                  marginalRate |-> IF incomeInBracket > 0 THEN bracket.rate
                                   ELSE acc.marginalRate])

calculateOrdinaryIncomeTax(taxableIncome, filingStatus, incomeSources) ==
    OrdinaryWalk(FEDERAL_BRACKETS[filingStatus], 1, Max(0, taxableIncome), incomeSources,
                 [tax |-> 0, bracketFill |-> << >>, marginalRate |-> 0])

----
\* engine/capitalGains

RECURSIVE CapGainsWalkBreak(_, _, _, _, _)
\* the loop that leaves (break) at a bracket ordinary income fills, instead of
\* going on to the next (continue)
CapGainsWalkBreak(brackets, i, remainingGains, incomeProcessed, acc) ==
    IF i > Len(brackets) \/ remainingGains <= 0 THEN acc
    ELSE LET bracketStart == brackets[i].min
             bracketEnd   == brackets[i].max
         IN  IF incomeProcessed >= bracketEnd
             THEN acc
             ELSE LET gainsStartInBracket == Max(bracketStart, incomeProcessed)
                      roomInBracket       == Minus(bracketEnd, gainsStartInBracket)
                      gainsInBracket      == Min(remainingGains, roomInBracket)
                      taxInBracket        == Frac(gainsInBracket, brackets[i].rate, 100)
                  IN  CapGainsWalkBreak(brackets, i + 1, remainingGains - gainsInBracket,
                          bracketEnd,
                          [tax |-> acc.tax + taxInBracket,
                           bracketBreakdown |-> acc.bracketBreakdown])

RECURSIVE CapGainsWalkUnstacked(_, _, _, _, _)
\* the loop with the gains starting at the bottom of each bracket, whatever
\* ordinary income there is
CapGainsWalkUnstacked(brackets, i, remainingGains, incomeProcessed, acc) ==
    IF i > Len(brackets) \/ remainingGains <= 0 THEN acc
    ELSE LET gainsInBracket == Min(remainingGains, Minus(brackets[i].max, brackets[i].min))
             taxInBracket   == Frac(gainsInBracket, brackets[i].rate, 100)
         IN  CapGainsWalkUnstacked(brackets, i + 1, remainingGains - gainsInBracket,
                 incomeProcessed,
                 [tax |-> acc.tax + taxInBracket,
                  bracketBreakdown |-> Append(acc.bracketBreakdown,
                      [rate   |-> brackets[i].rate,
                       amount |-> gainsInBracket,
                       tax    |-> taxInBracket])])

RECURSIVE CapGainsWalk(_, _, _, _, _)
\* the loop over the capital-gains brackets from index i on
CapGainsWalk(brackets, i, remainingGains, incomeProcessed, acc) ==
    IF i > Len(brackets) \/ remainingGains <= 0 THEN acc
    ELSE LET bracketStart == brackets[i].min
             bracketEnd   == brackets[i].max
         IN  IF incomeProcessed >= bracketEnd
             THEN CapGainsWalk(brackets, i + 1, remainingGains, incomeProcessed, acc)
             ELSE LET gainsStartInBracket == Max(bracketStart, incomeProcessed)
                      roomInBracket       == Minus(bracketEnd, gainsStartInBracket)
                      gainsInBracket      == Min(remainingGains, roomInBracket)
                      taxInBracket        == Frac(gainsInBracket, brackets[i].rate, 100)
                  IN  IF gainsInBracket > 0
                      THEN CapGainsWalk(brackets, i + 1, remainingGains - gainsInBracket,
                               bracketEnd,
                               [tax |-> acc.tax + taxInBracket,
                                bracketBreakdown |-> Append(acc.bracketBreakdown,
                                    [rate   |-> brackets[i].rate,
                                     amount |-> gainsInBracket,
                                     tax    |-> taxInBracket])])
                      ELSE CapGainsWalk(brackets, i + 1, remainingGains, bracketEnd, acc)

calculateCapitalGainsTax(longTermCapitalGains, taxableOrdinaryIncome, filingStatus) ==
    IF longTermCapitalGains <= 0
    THEN [tax |-> 0, effectiveRate |-> 0, bracketBreakdown |-> << >>]
    ELSE LET w == CapGainsWalk(CAPITAL_GAINS_BRACKETS[filingStatus], 1,
                      longTermCapitalGains, taxableOrdinaryIncome,
                      [tax |-> 0, bracketBreakdown |-> << >>])
         IN  [tax              |-> w.tax,
              effectiveRate    |-> MulDiv(w.tax, RATIO, longTermCapitalGains),
              bracketBreakdown |-> w.bracketBreakdown]

RECURSIVE RateAt(_, _, _)
RateAt(brackets, i, totalTaxableIncome) ==
    IF i > Len(brackets) THEN brackets[Len(brackets)].rate
    ELSE IF totalTaxableIncome <= brackets[i].max THEN brackets[i].rate
    ELSE RateAt(brackets, i + 1, totalTaxableIncome)

getCapitalGainsRate(totalTaxableIncome, filingStatus) ==
    RateAt(CAPITAL_GAINS_BRACKETS[filingStatus], 1, totalTaxableIncome)

----
\* engine/socialSecurity

ssThresholds(filingStatus) ==
    IF filingStatus = "mfj" THEN SS_TAXATION_THRESHOLDS.mfj ELSE SS_TAXATION_THRESHOLDS.single

\* between the thresholds: min(50% of the benefit, 50% of the excess over the first)
ssBetweenThresholdsWrongThreshold(ssBenefits, provisionalIncome, thresholds) ==
    LET excessOverFirst == provisionalIncome - thresholds.fiftyThreshold
    IN  Min(Frac(ssBenefits, 50, 100), Frac(excessOverFirst, 50, 100))

ssBetweenThresholds(ssBenefits, provisionalIncome, thresholds) ==
    LET excessOverFirst == provisionalIncome - thresholds.zeroThreshold
    IN  Min(Frac(ssBenefits, 50, 100), Frac(excessOverFirst, 50, 100))

\* above the second threshold
ssAboveSecondThresholdNoBase(ssBenefits, provisionalIncome, thresholds) ==
    LET excessOverSecond  == provisionalIncome - thresholds.fiftyThreshold
        additionalTaxable == Frac(excessOverSecond, 85, 100)
    IN  Min(Frac(ssBenefits, 85, 100), additionalTaxable)

ssAboveSecondThreshold(ssBenefits, provisionalIncome, thresholds) ==
    LET baseAmount == Min(Frac(ssBenefits, 50, 100),
                          Frac(thresholds.fiftyThreshold - thresholds.zeroThreshold, 50, 100))
        excessOverSecond  == provisionalIncome - thresholds.fiftyThreshold
        additionalTaxable == Frac(excessOverSecond, 85, 100)
    IN  Min(Frac(ssBenefits, 85, 100), baseAmount + additionalTaxable)

calculateSocialSecurityTaxable(ssBenefits, otherIncome, taxExemptInterest, filingStatus) ==
    IF ssBenefits <= 0
    THEN [taxableAmount |-> 0, taxablePercent |-> 0, provisionalIncome |-> 0]
    ELSE LET thresholds == ssThresholds(filingStatus)
             provisionalIncome == otherIncome + taxExemptInterest + Frac(ssBenefits, 50, 100)
             taxableAmount ==
                 IF provisionalIncome <= thresholds.zeroThreshold THEN 0
                 ELSE IF provisionalIncome <= thresholds.fiftyThreshold
                 THEN ssBetweenThresholds(ssBenefits, provisionalIncome, thresholds)
                 ELSE ssAboveSecondThreshold(ssBenefits, provisionalIncome, thresholds)
         IN  [taxableAmount     |-> MathRound(taxableAmount),
              taxablePercent    |-> MulDiv(taxableAmount, RATIO, ssBenefits),
              provisionalIncome |-> provisionalIncome]

----
\* engine/rmd

calculateRMD(age, priorYearEndBalance) ==
    IF age < RMD_START_AGE \/ priorYearEndBalance <= 0
    THEN [isRequired |-> FALSE, amount |-> 0, age |-> age,
          priorYearBalance |-> priorYearEndBalance, distributionPeriod |-> 0]
    ELSE LET distributionPeriod == getDistributionPeriod(age)
         IN  [isRequired |-> TRUE,
              amount |-> MathRound(Frac(priorYearEndBalance, 10, distributionPeriod)),
              age |-> age,
              priorYearBalance |-> priorYearEndBalance,
              distributionPeriod |-> distributionPeriod]

----
\* engine/deductions

\* a selector that never itemizes
calculateDeductionAlwaysStandard(filingStatus, useItemized, itemizedAmount) ==
    [amount |-> STANDARD_DEDUCTION[filingStatus], type |-> "standard"]

\* an absent itemizedAmount is 0: both are falsy in the test below
calculateDeduction(filingStatus, useItemized, itemizedAmount) ==
    LET standardAmount == STANDARD_DEDUCTION[filingStatus]
    IN  IF ~useItemized \/ itemizedAmount = 0
        THEN [amount |-> standardAmount, type |-> "standard"]
        ELSE IF itemizedAmount > standardAmount
        THEN [amount |-> itemizedAmount, type |-> "itemized"]
        ELSE [amount |-> standardAmount, type |-> "standard"]

----
\* engine/calculateTax
\* A portfolio slot that is null is a record with present = FALSE; an optional
\* number that is absent is 0 where the code tests it for truth.

NoTraditional ==
    [present |-> FALSE, balance |-> 0, hasPrior |-> FALSE, priorYearEndBalance |-> 0]
Traditional(balance) ==
    [present |-> TRUE, balance |-> balance, hasPrior |-> FALSE, priorYearEndBalance |-> 0]
TraditionalWithPrior(balance, priorYearEndBalance) ==
    [present |-> TRUE, balance |-> balance, hasPrior |-> TRUE,
     priorYearEndBalance |-> priorYearEndBalance]
NoTaxable == [present |-> FALSE, balance |-> 0, costBasis |-> 0]
Taxable(balance, costBasis) == [present |-> TRUE, balance |-> balance, costBasis |-> costBasis]
NoRoth == [present |-> FALSE, balance |-> 0]
Roth(balance) == [present |-> TRUE, balance |-> balance]
NoSocialSecurity == [present |-> FALSE, annualBenefit |-> 0]
SocialSecurity(annualBenefit) == [present |-> TRUE, annualBenefit |-> annualBenefit]
NoPension == [present |-> FALSE, annualBenefit |-> 0, cola |-> 0]
Pension(annualBenefit, cola) ==
    [present |-> TRUE, annualBenefit |-> annualBenefit, cola |-> cola]

balanceOf(slot) == IF slot.present THEN slot.balance ELSE 0

annualBenefitOf(slot) == IF slot.present THEN slot.annualBenefit ELSE 0

\* the gains in a withdrawal, with the ratio 0.4 assumed for a null account
longTermCapitalGainsDefaultRatio(portfolio, taxableWithdrawal) ==
    IF taxableWithdrawal <= 0 THEN 0
    ELSE IF ~portfolio.taxable.present THEN Frac(taxableWithdrawal, 4, 10)
    ELSE IF portfolio.taxable.balance > 0
    THEN MulDiv(taxableWithdrawal,
                portfolio.taxable.balance - portfolio.taxable.costBasis,
                portfolio.taxable.balance)
    ELSE 0

\* the gains taken as the withdrawal plus all the unrealized gains of the account
longTermCapitalGainsWholeAccount(portfolio, taxableWithdrawal) ==
    IF portfolio.taxable.present /\ taxableWithdrawal > 0
    THEN taxableWithdrawal + (portfolio.taxable.balance - portfolio.taxable.costBasis)
    ELSE 0

\* the gains in a withdrawal from the taxable account
longTermCapitalGainsOf(portfolio, taxableWithdrawal) ==
    IF portfolio.taxable.present /\ taxableWithdrawal > 0
    THEN IF portfolio.taxable.balance > 0
         THEN MulDiv(taxableWithdrawal,
                     portfolio.taxable.balance - portfolio.taxable.costBasis,
                     portfolio.taxable.balance)
         ELSE 0
    ELSE 0

ordinarySourcesOf(traditionalWithdrawal, pensionIncome, ssTaxable) ==
    (IF traditionalWithdrawal > 0
     THEN << [account |-> "traditional", amount |-> traditionalWithdrawal] >> ELSE << >>)
    \o (IF pensionIncome > 0
        THEN << [account |-> "pension", amount |-> pensionIncome] >> ELSE << >>)
    \o (IF ssTaxable > 0
        THEN << [account |-> "socialSecurity", amount |-> ssTaxable] >> ELSE << >>)

\* the state rate is in tenths of a percent
stateTaxOf(goal, taxableOrdinaryIncome, longTermCapitalGains) ==
    IF goal.stateTaxMethod = "rate" /\ goal.stateTaxRate # 0
    THEN Frac(taxableOrdinaryIncome + longTermCapitalGains, goal.stateTaxRate, 1000)
    ELSE IF goal.stateTaxMethod = "fixed" /\ goal.stateTaxFixedAmount # 0
    THEN goal.stateTaxFixedAmount
    ELSE 0

\* total / base with a base of 0 taken as 1
rateOnBaseAtLeastOne(total, base) == MulDiv(total, RATIO, Max(base, 1))

\* total / base as a ratio, 0 when the base is not positive
rateOn(total, base) == IF base > 0 THEN MulDiv(total, RATIO, base) ELSE 0

\* steps 3, 4 and 11: the sums and the record, once every part is known
breakdownOf(strategy, goal, longTermCapitalGains, ssResult, deductionResult, taxableOrdinaryIncome, ordinaryTaxResult, capGainsResult, stateTax) ==
    LET grossIncome == strategy.traditionalWithdrawal + strategy.taxableWithdrawal
                           + strategy.rothWithdrawal + strategy.socialSecurityIncome
                           + strategy.pensionIncome
        adjustedGrossIncome == strategy.traditionalWithdrawal + strategy.pensionIncome
                                   + longTermCapitalGains + ssResult.taxableAmount
        totalTax == ordinaryTaxResult.tax + capGainsResult.tax + stateTax
        totalTaxableIncome == taxableOrdinaryIncome + longTermCapitalGains
    IN  [ordinaryIncome         |-> strategy.traditionalWithdrawal + strategy.pensionIncome
                                       + ssResult.taxableAmount,
         longTermCapitalGains   |-> longTermCapitalGains,
         socialSecurityGross    |-> strategy.socialSecurityIncome,
         socialSecurityTaxable  |-> ssResult.taxableAmount,
         pensionGross           |-> strategy.pensionIncome,
         pensionTaxable         |-> strategy.pensionIncome,
         rothIncome             |-> strategy.rothWithdrawal,
         grossIncome            |-> grossIncome,
         adjustedGrossIncome    |-> adjustedGrossIncome,
         deductions             |-> deductionResult.amount,
         deductionType          |-> deductionResult.type,
         taxableIncome          |-> taxableOrdinaryIncome + longTermCapitalGains,
         ordinaryIncomeTax      |-> ordinaryTaxResult.tax,
         capitalGainsTax        |-> capGainsResult.tax,
         stateTax               |-> stateTax,
         bracketFill            |-> ordinaryTaxResult.bracketFill,
         capitalGainsRate       |-> capGainsResult.effectiveRate,
         capitalGainsBracket    |-> [rate |-> getCapitalGainsRate(totalTaxableIncome,
                                                  goal.filingStatus),
                                     threshold |-> totalTaxableIncome],
         totalTax               |-> totalTax,
         afterTaxIncome         |-> grossIncome - totalTax,
         effectiveRate          |-> rateOn(totalTax, grossIncome),
         effectiveRateOnAGI     |-> rateOn(totalTax, adjustedGrossIncome),
         effectiveRateOnTaxable |-> rateOn(totalTax, totalTaxableIncome),
         marginalOrdinaryRate   |-> ordinaryTaxResult.marginalRate,
         marginalCapGainsRate   |-> getCapitalGainsRate(totalTaxableIncome, goal.filingStatus),
         rmdAmount              |-> strategy.rmdAmount,
         rmdIsSatisfied         |-> strategy.rmdAmount = 0
                                       \/ strategy.traditionalWithdrawal >= strategy.rmdAmount]

\* steps 7 to 10: the taxes on the taxable ordinary income and on the gains
taxesOn(strategy, goal, longTermCapitalGains, ssResult, deductionResult, taxableOrdinaryIncome) ==
    breakdownOf(strategy, goal, longTermCapitalGains, ssResult, deductionResult,
        taxableOrdinaryIncome,
        calculateOrdinaryIncomeTax(taxableOrdinaryIncome, goal.filingStatus,
            ordinarySourcesOf(strategy.traditionalWithdrawal, strategy.pensionIncome,
                              ssResult.taxableAmount)),
        calculateCapitalGainsTax(longTermCapitalGains, taxableOrdinaryIncome,
                                 goal.filingStatus),
        stateTaxOf(goal, taxableOrdinaryIncome, longTermCapitalGains))

\* step 6 without Math.max: the taxable ordinary income may be negative
afterDeductionNoFloor(strategy, goal, longTermCapitalGains, ssResult, deductionResult) ==
    taxesOn(strategy, goal, longTermCapitalGains, ssResult, deductionResult,
        strategy.traditionalWithdrawal + strategy.pensionIncome
            + ssResult.taxableAmount - deductionResult.amount)

\* step 6: the ordinary income less the deduction, not below 0
afterDeduction(strategy, goal, longTermCapitalGains, ssResult, deductionResult) ==
    taxesOn(strategy, goal, longTermCapitalGains, ssResult, deductionResult,
        Max(0, strategy.traditionalWithdrawal + strategy.pensionIncome
                   + ssResult.taxableAmount - deductionResult.amount))

\* step 2 with the Roth withdrawal counted in the other income
withGainsRothInOtherIncome(strategy, goal, longTermCapitalGains) ==
    afterDeduction(strategy, goal, longTermCapitalGains,
        calculateSocialSecurityTaxable(strategy.socialSecurityIncome,
            strategy.traditionalWithdrawal + strategy.pensionIncome + longTermCapitalGains
                + strategy.rothWithdrawal,
            0, goal.filingStatus),
        calculateDeduction(goal.filingStatus, goal.useItemizedDeductions,
                           goal.itemizedAmount))

\* steps 2 and 5: the taxable Social Security and the deduction
withGains(strategy, goal, longTermCapitalGains) ==
    afterDeduction(strategy, goal, longTermCapitalGains,
        calculateSocialSecurityTaxable(strategy.socialSecurityIncome,
            strategy.traditionalWithdrawal + strategy.pensionIncome + longTermCapitalGains,
            0, goal.filingStatus),
        calculateDeduction(goal.filingStatus, goal.useItemizedDeductions,
                           goal.itemizedAmount))

calculateTaxBreakdown(strategy, portfolio, goal) ==
    withGains(strategy, goal, longTermCapitalGainsOf(portfolio, strategy.taxableWithdrawal))

----

\* lines 215-226
estimateTaxForGrossIncome(grossTarget, filingStatus) ==
    calculateOrdinaryIncomeTax(
        Max(0, grossTarget - calculateDeduction(filingStatus, FALSE, 0).amount),
        filingStatus, << >>).tax

\* the difference calculateGrossForAfterTax tests and adds, lines 242-244
grossDifference(grossEstimate, afterTaxTarget, filingStatus) ==
    afterTaxTarget - (grossEstimate - estimateTaxForGrossIncome(grossEstimate, filingStatus))

\* engine/strategyGenerator

getLowBrackets(filingStatus) ==
    SelectSeq(FEDERAL_BRACKETS[filingStatus], LAMBDA b : b.rate <= 12)

RECURSIVE estimateOrdinaryTaxWalk(_, _, _, _)
estimateOrdinaryTaxWalk(brackets, i, remaining, tax) ==
    IF i > Len(brackets) \/ remaining <= 0 THEN tax
    ELSE LET incomeInBracket == Min(remaining, Minus(brackets[i].max, brackets[i].min))
         IN  estimateOrdinaryTaxWalk(brackets, i + 1, remaining - incomeInBracket,
                 tax + Frac(incomeInBracket, brackets[i].rate, 100))

estimateOrdinaryTax(taxableIncome, filingStatus) ==
    estimateOrdinaryTaxWalk(FEDERAL_BRACKETS[filingStatus], 1, taxableIncome, 0)

RECURSIVE estimateGrossLoop(_, _, _, _, _)
\* the loop from pass i on; gross is the estimate so far
estimateGrossLoop(i, gross, afterTaxTarget, filingStatus, deduction) ==
    IF i >= 10 THEN gross
    ELSE LET afterTax == gross - estimateOrdinaryTax(Max(0, gross - deduction), filingStatus)
         IN  IF Abs(afterTax - afterTaxTarget) < Usd(500) THEN gross
             ELSE estimateGrossLoop(i + 1, gross + (afterTaxTarget - afterTax),
                                    afterTaxTarget, filingStatus, deduction)

estimateGrossForAfterTax(afterTaxTarget, filingStatus, deduction) ==
    estimateGrossLoop(0, afterTaxTarget, afterTaxTarget, filingStatus, deduction)

\* the difference estimateGrossForAfterTax tests and adds, lines 494-503
estimateDifference(gross, afterTaxTarget, filingStatus, deduction) ==
    afterTaxTarget - (gross - estimateOrdinaryTax(Max(0, gross - deduction), filingStatus))

getCurrentSSTaxable(ssAnnual, pensionAnnual, filingStatus, traditionalAmt, capGains) ==
    calculateSocialSecurityTaxable(ssAnnual, traditionalAmt + capGains + pensionAnnual, 0,
                                   filingStatus).taxableAmount

\* the traditional withdrawal one low bracket takes, lines 375-388
additionalTraditionalOf(w, bracketMax, currentSSTaxable, traditionalAvailable, deduction) ==
    LET bracketRoom ==
            Max(0, Minus(bracketMax,
                         Max(0, w.traditionalWithdrawal + currentSSTaxable - deduction)))
    IN  IF bracketRoom > 0
        THEN Min3(IF currentSSTaxable > 0 THEN Frac(bracketRoom, 100, 185)
                  ELSE Frac(bracketRoom, 10, 15),
                  w.remainingNeeded,
                  traditionalAvailable - w.traditionalWithdrawal)
        ELSE 0

addTraditional(w, additionalTraditional) ==
    [w EXCEPT !.traditionalWithdrawal = @ + additionalTraditional,
              !.remainingNeeded = @ - additionalTraditional]

RECURSIVE fillLowBrackets(_, _, _, _, _, _, _, _)
\* phase 1 from bracket i on: fill the low brackets with traditional withdrawals
fillLowBrackets(brackets, i, w, traditionalAvailable, ssAnnual, pensionAnnual, filingStatus, deduction) ==
    IF \/ i > Len(brackets)
       \/ w.remainingNeeded <= 0
       \/ w.traditionalWithdrawal >= traditionalAvailable
    THEN w
    ELSE fillLowBrackets(brackets, i + 1,
             addTraditional(w,
                 additionalTraditionalOf(w, brackets[i].max,
                     getCurrentSSTaxable(ssAnnual, pensionAnnual, filingStatus,
                                         w.traditionalWithdrawal, 0),
                     traditionalAvailable, deduction)),
             traditionalAvailable, ssAnnual, pensionAnnual, filingStatus, deduction)

\* phase 2: harvest gains at the 0% rate; w holds the withdrawals so far
harvestZeroRateGains(w, portfolio, filingStatus, deduction, finalSSTaxable) ==
    LET taxableAvailable == balanceOf(portfolio.taxable)
        zeroCapGainsBracket == CAPITAL_GAINS_BRACKETS[filingStatus][1]
        currentTaxableIncome == w.traditionalWithdrawal + finalSSTaxable - deduction
        gains == portfolio.taxable.balance - portfolio.taxable.costBasis
        zeroRateRoom == zeroCapGainsBracket.max - Max(0, currentTaxableIncome)
        taxableNeeded ==
            Min3(w.remainingNeeded, taxableAvailable,
                 IF gains > 0 THEN MulDiv(zeroRateRoom, portfolio.taxable.balance, gains)
                 ELSE taxableAvailable)
    IN  IF w.remainingNeeded > 0 /\ taxableAvailable > 0
             /\ currentTaxableIncome < zeroCapGainsBracket.max
        THEN [w EXCEPT !.taxableWithdrawal = taxableNeeded,
                       !.remainingNeeded = @ - taxableNeeded]
        ELSE w

\* phase 3 without the cap at the balance
useRothUncapped(w, rothAvailable) ==
    IF w.remainingNeeded > 0 /\ rothAvailable > 0
    THEN [w EXCEPT !.rothWithdrawal = w.remainingNeeded, !.remainingNeeded = 0]
    ELSE w

\* phase 3: the Roth account for what is still needed
useRoth(w, rothAvailable) ==
    IF w.remainingNeeded > 0 /\ rothAvailable > 0
    THEN [w EXCEPT !.rothWithdrawal = Min(w.remainingNeeded, rothAvailable),
                   !.remainingNeeded = @ - Min(w.remainingNeeded, rothAvailable)]
    ELSE w

\* phase 4: more traditional, into the higher brackets
useMoreTraditional(w, traditionalAvailable) ==
    IF w.remainingNeeded > 0 /\ w.traditionalWithdrawal < traditionalAvailable
    THEN [w EXCEPT
            !.traditionalWithdrawal =
                @ + Min(w.remainingNeeded, traditionalAvailable - w.traditionalWithdrawal),
            !.remainingNeeded =
                @ - Min(w.remainingNeeded, traditionalAvailable - w.traditionalWithdrawal)]
    ELSE w

\* phase 5: more from the taxable account
\* lines 443-451 left out: no second withdrawal from the taxable account
useMoreTaxableSkipped(w, taxableAvailable) == w

useMoreTaxable(w, taxableAvailable) ==
    IF w.remainingNeeded > 0 /\ w.taxableWithdrawal < taxableAvailable
    THEN [w EXCEPT
            !.taxableWithdrawal =
                @ + Min(w.remainingNeeded, taxableAvailable - w.taxableWithdrawal),
            !.remainingNeeded =
                @ - Min(w.remainingNeeded, taxableAvailable - w.taxableWithdrawal)]
    ELSE w

\* phases 2 to 5 on the outcome of phase 1
afterLowBrackets(w, portfolio, goal, deduction) ==
    useMoreTaxable(
        useMoreTraditional(
            useRoth(
                harvestZeroRateGains(w, portfolio, goal.filingStatus, deduction,
                    getCurrentSSTaxable(annualBenefitOf(portfolio.socialSecurity),
                        annualBenefitOf(portfolio.pension), goal.filingStatus,
                        w.traditionalWithdrawal, 0)),
                balanceOf(portfolio.roth)),
            balanceOf(portfolio.traditional)),
        balanceOf(portfolio.taxable))

\* the withdrawals of phases 1 to 5, before rounding
planWithdrawals(portfolio, goal, rmdRequired, deduction, targetGross) ==
    afterLowBrackets(
        fillLowBrackets(getLowBrackets(goal.filingStatus), 1,
            [traditionalWithdrawal |-> rmdRequired, taxableWithdrawal |-> 0,
             rothWithdrawal |-> 0,
             remainingNeeded |-> targetGross - annualBenefitOf(portfolio.socialSecurity)
                                     - annualBenefitOf(portfolio.pension) - rmdRequired],
            balanceOf(portfolio.traditional), annualBenefitOf(portfolio.socialSecurity),
            annualBenefitOf(portfolio.pension), goal.filingStatus, deduction),
        portfolio, goal, deduction)

\* the strategy before any refinement: everything rounded, traditional >= RMD
roundStrategy(w, ssAnnual, pensionAnnual, rmdRequired) ==
    [traditionalWithdrawal |-> Max(MathRound(w.traditionalWithdrawal), rmdRequired),
     taxableWithdrawal     |-> MathRound(w.taxableWithdrawal),
     rothWithdrawal        |-> MathRound(w.rothWithdrawal),
     socialSecurityIncome  |-> MathRound(ssAnnual),
     pensionIncome         |-> MathRound(pensionAnnual),
     rmdAmount             |-> rmdRequired,
     isSystemGenerated     |-> TRUE]

priorYearBalanceOf(portfolio) ==
    IF portfolio.traditional.present /\ portfolio.traditional.hasPrior
    THEN portfolio.traditional.priorYearEndBalance
    ELSE balanceOf(portfolio.traditional)

rmdRequiredOf(portfolio, goal) ==
    calculateRMD(goal.primaryAge, priorYearBalanceOf(portfolio)).amount

initialStrategyOf(portfolio, goal) ==
    LET rmdRequired == rmdRequiredOf(portfolio, goal)
        deduction == calculateDeduction(goal.filingStatus, goal.useItemizedDeductions,
                                        goal.itemizedAmount).amount
        targetGross == IF goal.targetType = "gross" THEN goal.amount
                       ELSE estimateGrossForAfterTax(goal.amount, goal.filingStatus, deduction)
    IN  roundStrategy(planWithdrawals(portfolio, goal, rmdRequired, deduction, targetGross),
                      annualBenefitOf(portfolio.socialSecurity),
                      annualBenefitOf(portfolio.pension), rmdRequired)

\* lines 555-603 without the floor: the traditional withdrawal is cut by 80%
\* of the overshoot whatever the RMD, and the rounding keeps no minimum
refineIterationNoFloor(strategy, difference, portfolio) ==
    IF difference > 0 THEN strategy
    ELSE [strategy EXCEPT !.traditionalWithdrawal =
              MathRound(Max(0, @ - Frac(Abs(difference), 80, 100)))]

\* a pass that adjusts the Roth withdrawal by three times the difference
refineIterationOvershoot(strategy, difference, portfolio) ==
    [strategy EXCEPT !.rothWithdrawal =
        MathRound(Max(0, Min(@ + 3 * difference, balanceOf(portfolio.roth))))]

\* one pass of the refinement loop: adjust, then round and keep traditional >= RMD
refineIteration(strategy, difference, portfolio) ==
    LET rothBalance == balanceOf(portfolio.roth)
        traditionalBalance == balanceOf(portfolio.traditional)
        taxableBalance == balanceOf(portfolio.taxable)
        adjusted ==
            IF difference > 0
            THEN IF rothBalance - strategy.rothWithdrawal > 0
                 THEN [strategy EXCEPT !.rothWithdrawal =
                          Min(@ + Abs(difference), rothBalance)]
                 ELSE IF traditionalBalance - strategy.traditionalWithdrawal > 0
                 THEN [strategy EXCEPT !.traditionalWithdrawal =
                          Min(@ + Frac(Abs(difference), 125, 100), traditionalBalance)]
                 ELSE IF taxableBalance - strategy.taxableWithdrawal > 0
                 THEN [strategy EXCEPT !.taxableWithdrawal =
                          Min(@ + Frac(Abs(difference), 115, 100), taxableBalance)]
                 ELSE strategy
            ELSE IF strategy.traditionalWithdrawal > strategy.rmdAmount
                 THEN [strategy EXCEPT !.traditionalWithdrawal =
                          @ - Min(Frac(Abs(difference), 80, 100), @ - strategy.rmdAmount)]
                 ELSE IF strategy.taxableWithdrawal > 0
                 THEN [strategy EXCEPT !.taxableWithdrawal =
                          @ - Min(Frac(Abs(difference), 90, 100), @)]
                 ELSE IF strategy.rothWithdrawal > 0
                 THEN [strategy EXCEPT !.rothWithdrawal = @ - Min(Abs(difference), @)]
                 ELSE strategy
    IN  [adjusted EXCEPT
            !.traditionalWithdrawal = Max(MathRound(@), strategy.rmdAmount),
            !.taxableWithdrawal = MathRound(@),
            !.rothWithdrawal = MathRound(@)]

maxIterations == 15

\* the loop's test: stop when the after-tax income is within $500 of the target
refineConverged(breakdown, goal) ==
    Abs(goal.amount - breakdown.afterTaxIncome) < Usd(500)

RECURSIVE refineNext(_, _, _, _)

RECURSIVE refineLoop(_, _, _, _, _)
refineLoop(strategy, breakdown, iterations, portfolio, goal) ==
    IF iterations >= maxIterations \/ refineConverged(breakdown, goal) THEN strategy
    ELSE refineNext(refineIteration(strategy, goal.amount - breakdown.afterTaxIncome,
                                    portfolio),
                    iterations + 1, portfolio, goal)

\* lines 610-612: the breakdown of the adjusted strategy, and round the loop
refineNext(strategy, iterations, portfolio, goal) ==
    refineLoop(strategy, calculateTaxBreakdown(strategy, portfolio, goal), iterations,
               portfolio, goal)

refineForAfterTaxTarget(initialStrategy, portfolio, goal) ==
    refineNext(initialStrategy, 0, portfolio, goal)

\* lines 464-469
refinedIfAfterTax(strategy, portfolio, goal) ==
    IF goal.targetType = "afterTax"
    THEN refineForAfterTaxTarget(strategy, portfolio, goal)
    ELSE strategy

generateStrategy(portfolio, goal) ==
    refinedIfAfterTax(initialStrategyOf(portfolio, goal), portfolio, goal)

\* a validation that stops at the first failed check
validateStrategyFirstErrorOnly(strategy, portfolio) ==
    IF strategy.traditionalWithdrawal > balanceOf(portfolio.traditional)
    THEN [valid |-> FALSE, errors |-> <<"traditional">>]
    ELSE IF strategy.taxableWithdrawal > balanceOf(portfolio.taxable)
    THEN [valid |-> FALSE, errors |-> <<"taxable">>]
    ELSE IF strategy.rothWithdrawal > balanceOf(portfolio.roth)
    THEN [valid |-> FALSE, errors |-> <<"roth">>]
    ELSE IF strategy.socialSecurityIncome > annualBenefitOf(portfolio.socialSecurity)
    THEN [valid |-> FALSE, errors |-> <<"socialSecurity">>]
    ELSE IF strategy.pensionIncome > annualBenefitOf(portfolio.pension)
    THEN [valid |-> FALSE, errors |-> <<"pension">>]
    ELSE IF strategy.rmdAmount > 0 /\ strategy.traditionalWithdrawal < strategy.rmdAmount
    THEN [valid |-> FALSE, errors |-> <<"rmd">>]
    ELSE [valid |-> TRUE, errors |-> << >>]

validateStrategy(strategy, portfolio) ==
    LET errors ==
          (IF strategy.traditionalWithdrawal > balanceOf(portfolio.traditional)
           THEN <<"traditional">> ELSE << >>)
          \o (IF strategy.taxableWithdrawal > balanceOf(portfolio.taxable)
              THEN <<"taxable">> ELSE << >>)
          \o (IF strategy.rothWithdrawal > balanceOf(portfolio.roth)
              THEN <<"roth">> ELSE << >>)
          \o (IF strategy.socialSecurityIncome > annualBenefitOf(portfolio.socialSecurity)
              THEN <<"socialSecurity">> ELSE << >>)
          \o (IF strategy.pensionIncome > annualBenefitOf(portfolio.pension)
              THEN <<"pension">> ELSE << >>)
          \o (IF strategy.rmdAmount > 0
                   /\ strategy.traditionalWithdrawal < strategy.rmdAmount
              THEN <<"rmd">> ELSE << >>)
    IN  [valid |-> errors = << >>, errors |-> errors]

----

\* engine/projectionEngine
\* Rates are in tenths of a percent; inflationMultiplier is a ratio. loc holds
\* the locals of generateRetirementProjection.

NullAge == -1

timesOnePlus(x, rate) == Frac(x, 1000 + rate, 1000)

\* lines 42-60: the locals before the first year
projectionLocals(portfolio, goal, currentYear) ==
    [pc |-> "loop",
     currentYear |-> currentYear,
     age |-> goal.primaryAge,
     inflationMultiplier |-> RATIO,
     traditionalBalance |-> balanceOf(portfolio.traditional),
     taxableBalance |-> balanceOf(portfolio.taxable),
     rothBalance |-> balanceOf(portfolio.roth),
     taxableCostBasis |-> IF portfolio.taxable.present THEN portfolio.taxable.costBasis ELSE 0,
     socialSecurityBenefit |-> annualBenefitOf(portfolio.socialSecurity),
     pensionBenefit |-> annualBenefitOf(portfolio.pension),
     totalTaxesPaid |-> 0,
     totalWithdrawals |-> 0,
     depletionAge |-> NullAge,
     years |-> << >>]

totalBalanceOf(loc) == loc.traditionalBalance + loc.taxableBalance + loc.rothBalance

\* lines 73-98: the year's portfolio, a slot of zero being null
yearPortfolioOf(loc, pensionCola) ==
    [traditional |-> IF loc.traditionalBalance > 0
                     THEN TraditionalWithPrior(loc.traditionalBalance, loc.traditionalBalance)
                     ELSE NoTraditional,
     taxable |-> IF loc.taxableBalance > 0
                 THEN Taxable(loc.taxableBalance, loc.taxableCostBasis) ELSE NoTaxable,
     roth |-> IF loc.rothBalance > 0 THEN Roth(loc.rothBalance) ELSE NoRoth,
     socialSecurity |-> IF loc.socialSecurityBenefit > 0
                        THEN SocialSecurity(loc.socialSecurityBenefit) ELSE NoSocialSecurity,
     pension |-> IF loc.pensionBenefit > 0
                 THEN Pension(loc.pensionBenefit, pensionCola) ELSE NoPension]

\* lines 101-107
adjustedGoalOf(goal, loc) ==
    [goal EXCEPT !.amount = MathRound(MulDiv(goal.amount, loc.inflationMultiplier, RATIO)),
                 !.primaryAge = loc.age]

\* a loop whose year with nothing left still takes the goal, from the Roth
\* account
strategyOfYearGoalFromNothing(loc, goal, initial, yearPortfolio, adjustedGoal) ==
    IF loc.age = goal.primaryAge /\ initial.present
    THEN initial.strategy
    ELSE IF totalBalanceOf(loc) > 0
    THEN generateStrategy(yearPortfolio, adjustedGoal)
    ELSE [traditionalWithdrawal |-> 0,
          taxableWithdrawal     |-> 0,
          rothWithdrawal        |-> adjustedGoal.amount,
          socialSecurityIncome  |-> loc.socialSecurityBenefit,
          pensionIncome         |-> loc.pensionBenefit,
          rmdAmount             |-> 0,
          isSystemGenerated     |-> TRUE]

\* a loop that regenerates the strategy in every year, the first included
strategyOfYearRegenerated(loc, goal, initial, yearPortfolio, adjustedGoal) ==
    generateStrategy(yearPortfolio, adjustedGoal)

\* lines 116-136: the year's strategy
strategyOfYear(loc, goal, initial, yearPortfolio, adjustedGoal) ==
    IF loc.age = goal.primaryAge /\ initial.present
    THEN initial.strategy
    ELSE IF totalBalanceOf(loc) > 0 \/ loc.socialSecurityBenefit > 0 \/ loc.pensionBenefit > 0
    THEN generateStrategy(yearPortfolio, adjustedGoal)
    ELSE [traditionalWithdrawal |-> 0,
          taxableWithdrawal     |-> 0,
          rothWithdrawal        |-> 0,
          socialSecurityIncome  |-> loc.socialSecurityBenefit,
          pensionIncome         |-> loc.pensionBenefit,
          rmdAmount             |-> 0,
          isSystemGenerated     |-> TRUE]

\* lines 116-136: the year's breakdown
breakdownOfYear(loc, goal, initial, yearPortfolio, adjustedGoal, strategy) ==
    IF loc.age = goal.primaryAge /\ initial.present
    THEN initial.breakdown
    ELSE calculateTaxBreakdown(strategy, yearPortfolio, adjustedGoal)

\* lines 139-165
yearDataOf(loc, strategy, breakdown) ==
    [year |-> loc.currentYear + (Len(loc.years)),
     age |-> loc.age,
     balances |-> [traditional |-> MathRound(loc.traditionalBalance),
                   taxable |-> MathRound(loc.taxableBalance),
                   roth |-> MathRound(loc.rothBalance),
                   total |-> MathRound(totalBalanceOf(loc))],
     rmdAmount |-> strategy.rmdAmount,
     withdrawals |-> [traditional |-> strategy.traditionalWithdrawal,
                      taxable |-> strategy.taxableWithdrawal,
                      roth |-> strategy.rothWithdrawal,
                      socialSecurity |-> strategy.socialSecurityIncome,
                      pension |-> strategy.pensionIncome,
                      total |-> strategy.traditionalWithdrawal + strategy.taxableWithdrawal
                                    + strategy.rothWithdrawal + strategy.socialSecurityIncome
                                    + strategy.pensionIncome],
     taxes |-> [federal |-> breakdown.ordinaryIncomeTax + breakdown.capitalGainsTax,
                state |-> breakdown.stateTax,
                total |-> breakdown.totalTax],
     afterTaxIncome |-> breakdown.afterTaxIncome,
     effectiveRate |-> breakdown.effectiveRate]

\* lines 179-182 left out: a withdrawal leaves the cost basis as it was
costBasisAfterUnreduced(loc, yearPortfolio, strategy) == loc.taxableCostBasis

\* lines 179-182: the cost basis left after a withdrawal
costBasisAfter(loc, yearPortfolio, strategy) ==
    IF yearPortfolio.taxable.present /\ strategy.taxableWithdrawal > 0
    THEN Max(0, MulDiv(loc.taxableCostBasis,
                       yearPortfolio.taxable.balance - strategy.taxableWithdrawal,
                       yearPortfolio.taxable.balance))
    ELSE loc.taxableCostBasis

\* lines 174-176 without Math.max: a withdrawal above the balance leaves a
\* negative balance
withdrawnNoFloor(loc, yearPortfolio, strategy, breakdown) ==
    [loc EXCEPT
        !.depletionAge = IF totalBalanceOf(loc) <= 0 /\ @ = NullAge THEN loc.age ELSE @,
        !.years = Append(@, yearDataOf(loc, strategy, breakdown)),
        !.totalTaxesPaid = @ + breakdown.totalTax,
        !.totalWithdrawals = @ + strategy.traditionalWithdrawal + strategy.taxableWithdrawal
                                 + strategy.rothWithdrawal + strategy.socialSecurityIncome
                                 + strategy.pensionIncome,
        !.traditionalBalance = @ - strategy.traditionalWithdrawal,
        !.taxableBalance = @ - strategy.taxableWithdrawal,
        !.rothBalance = @ - strategy.rothWithdrawal,
        !.taxableCostBasis = costBasisAfter(loc, yearPortfolio, strategy)]

\* a loop that records the age of every year that starts with nothing left
withdrawnOverwriting(loc, yearPortfolio, strategy, breakdown) ==
    [loc EXCEPT
        !.depletionAge = IF totalBalanceOf(loc) <= 0 THEN loc.age ELSE @,
        !.years = Append(@, yearDataOf(loc, strategy, breakdown)),
        !.totalTaxesPaid = @ + breakdown.totalTax,
        !.totalWithdrawals = @ + strategy.traditionalWithdrawal + strategy.taxableWithdrawal
                                 + strategy.rothWithdrawal + strategy.socialSecurityIncome
                                 + strategy.pensionIncome,
        !.traditionalBalance = Max(0, @ - strategy.traditionalWithdrawal),
        !.taxableBalance = Max(0, @ - strategy.taxableWithdrawal),
        !.rothBalance = Max(0, @ - strategy.rothWithdrawal),
        !.taxableCostBasis = costBasisAfter(loc, yearPortfolio, strategy)]

\* lines 66-70 and 138-182: note a depletion, record the year, take the withdrawals
withdrawn(loc, yearPortfolio, strategy, breakdown) ==
    [loc EXCEPT
        !.depletionAge = IF totalBalanceOf(loc) <= 0 /\ @ = NullAge THEN loc.age ELSE @,
        !.years = Append(@, yearDataOf(loc, strategy, breakdown)),
        !.totalTaxesPaid = @ + breakdown.totalTax,
        !.totalWithdrawals = @ + strategy.traditionalWithdrawal + strategy.taxableWithdrawal
                                 + strategy.rothWithdrawal + strategy.socialSecurityIncome
                                 + strategy.pensionIncome,
        !.traditionalBalance = Max(0, @ - strategy.traditionalWithdrawal),
        !.taxableBalance = Max(0, @ - strategy.taxableWithdrawal),
        !.rothBalance = Max(0, @ - strategy.rothWithdrawal),
        !.taxableCostBasis = costBasisAfter(loc, yearPortfolio, strategy)]

\* lines 190-193: the cost basis once the account has grown to taxableBalance
costBasisGrown(taxableCostBasis, taxableBalance, growthRate) ==
    IF taxableBalance > 0
    THEN taxableCostBasis + Frac(taxableBalance - taxableCostBasis, growthRate, 1000)
    ELSE taxableCostBasis

\* lines 184-199 and the loop's step: growth, COLA, the next age
grown(loc, assumptions, pensionCola) ==
    [loc EXCEPT
        !.traditionalBalance = timesOnePlus(@, assumptions.growthRate),
        !.taxableBalance = timesOnePlus(@, assumptions.growthRate),
        !.rothBalance = timesOnePlus(@, assumptions.growthRate),
        !.taxableCostBasis = costBasisGrown(@,
                                 timesOnePlus(loc.taxableBalance, assumptions.growthRate),
                                 assumptions.growthRate),
        !.socialSecurityBenefit = timesOnePlus(@, assumptions.socialSecurityCOLA),
        !.pensionBenefit = timesOnePlus(@, pensionCola),
        !.inflationMultiplier = timesOnePlus(@, assumptions.inflationRate),
        !.age = @ + 1]

pensionColaOf(portfolio) == IF portfolio.pension.present THEN portfolio.pension.cola ELSE 0

yearWithBreakdown(loc, assumptions, pensionCola, yearPortfolio, strategy, breakdown) ==
    grown(withdrawn(loc, yearPortfolio, strategy, breakdown), assumptions, pensionCola)

yearWithStrategy(loc, c, yearPortfolio, adjustedGoal, strategy) ==
    yearWithBreakdown(loc, c.assumptions, pensionColaOf(c.portfolio), yearPortfolio, strategy,
        breakdownOfYear(loc, c.goal, c.initial, yearPortfolio, adjustedGoal, strategy))

yearWithGoal(loc, c, yearPortfolio, adjustedGoal) ==
    yearWithStrategy(loc, c, yearPortfolio, adjustedGoal,
        strategyOfYear(loc, c.goal, c.initial, yearPortfolio, adjustedGoal))

\* one pass of the loop over the ages, lines 62-200; c holds the arguments
projectYear(loc, c) ==
    yearWithGoal(loc, c, yearPortfolioOf(loc, pensionColaOf(c.portfolio)),
                 adjustedGoalOf(c.goal, loc))

\* lines 202-215
projectionOf(loc, c) ==
    [startAge |-> c.goal.primaryAge,
     endAge |-> c.goal.planningHorizon,
     assumptions |-> c.assumptions,
     years |-> loc.years,
     totalTaxesPaid |-> MathRound(loc.totalTaxesPaid),
     totalWithdrawals |-> MathRound(loc.totalWithdrawals),
     finalPortfolioValue |-> MathRound(totalBalanceOf(loc)),
     isSustainable |-> loc.depletionAge = NullAge,
     depletionAge |-> loc.depletionAge]

----

\* The state: the call under way (the function and its arguments), its frame
\* (the locals of a call that runs in steps), its return, the return of the
\* call before it, and the year of the system clock.

VARIABLES call, frame, ret, prev, clock

vars == <<call, frame, ret, prev, clock>>

NoRet == [done |-> FALSE]

NoFrame == [pc |-> "none"]

----
\* The calculators called on their own: the inputs are drawn at the start, a
\* Calc step applies the calculator named by the call, and a Raise step calls
\* it again with a larger income and everything else as before.


GridStep == 61237
MaxGrid == 14
OddUnits == 37
MaxRaises == 2
MaxAge == 122
MaxBenefitK == 3
BenefitStep == 10007

\* amounts spread over every bracket, most of them off the whole dollar
Grid == {Usd(k * GridStep) + k * OddUnits : k \in 0..MaxGrid}

Near(t) == {t - Usd(1), t - 1, t, t + 1, t + Usd(1)}

BracketEnds(brackets) ==
    {brackets[i].max : i \in {j \in 1..Len(brackets) : brackets[j].max # Infinity}}

OrdinaryIncomes(filingStatus) ==
    {0 - Usd(1), 0, 1} \cup Grid
        \cup UNION {Near(t) : t \in BracketEnds(FEDERAL_BRACKETS[filingStatus])}

\* gains and the income under them are whole half-dollars: every bracket rate
\* of such an amount is a whole number of units, so the walk's products are exact
GainsAmounts == {0, HALF, Usd(1), Usd(30000) + HALF, Usd(600000)}

NearHalf(t) == {t - Usd(1), t - HALF, t, t + HALF, t + Usd(1)}

StackFloors(filingStatus) ==
    {0} \cup {Usd(k * 3 * GridStep) + k * HALF : k \in 0..(MaxGrid \div 3)}
        \cup UNION {NearHalf(t) : t \in BracketEnds(CAPITAL_GAINS_BRACKETS[filingStatus])}

OrdinaryRaiseSteps == {HALF, Usd(1), Usd(GridStep)}

OtherRaiseSteps == {1, Usd(1), Usd(GridStep)}

\* benefits of a whole number of cents, so that half a benefit is on the grid
Benefits == {0, HALF, Usd(1), Usd(10)} \cup {Usd(k * BenefitStep) + 2 * k : k \in 1..MaxBenefitK}

\* other income that puts the provisional income at and next to each threshold
OtherIncomes(ssBenefits, filingStatus) ==
    {0} \cup {Usd(k * 4 * GridStep) + k * OddUnits : k \in 0..(MaxGrid \div 4)}
        \cup UNION {Near(t - Frac(ssBenefits, 50, 100)) :
                        t \in {ssThresholds(filingStatus).zeroThreshold,
                               ssThresholds(filingStatus).fiftyThreshold}}

Ages == 70..MaxAge

PriorBalances == {0 - Usd(1), 0, 1, Usd(1), Usd(500000)}
                    \cup {Usd(k * 5 * GridStep) + k * OddUnits : k \in 1..(MaxGrid \div 5)}

CalcInit ==
    /\ ret = NoRet
    /\ frame = NoFrame
    /\ prev = NoRet
    /\ clock = 0
    /\ \E filingStatus \in FilingStatus :
        \/ \E taxableIncome \in OrdinaryIncomes(filingStatus) :
              call = [fn |-> "calculateOrdinaryIncomeTax",
                      taxableIncome |-> taxableIncome, filingStatus |-> filingStatus]
        \/ \E gains \in GainsAmounts, floor \in StackFloors(filingStatus) :
              call = [fn |-> "calculateCapitalGainsTax", longTermCapitalGains |-> gains,
                      taxableOrdinaryIncome |-> floor, filingStatus |-> filingStatus,
                      raises |-> 0]
        \/ \E ssBenefits \in Benefits :
              \E otherIncome \in OtherIncomes(ssBenefits, filingStatus) :
                 call = [fn |-> "calculateSocialSecurityTaxable", ssBenefits |-> ssBenefits,
                         otherIncome |-> otherIncome, filingStatus |-> filingStatus,
                         raises |-> 0]
        \/ /\ filingStatus = "single"
           /\ \E age \in Ages, priorYearEndBalance \in PriorBalances :
                 call = [fn |-> "calculateRMD", age |-> age,
                         priorYearEndBalance |-> priorYearEndBalance]

CalcOrdinary ==
    /\ call.fn = "calculateOrdinaryIncomeTax" /\ ~ret.done
    /\ ret' = [done |-> TRUE,
               value |-> calculateOrdinaryIncomeTax(call.taxableIncome, call.filingStatus, << >>)]
    /\ UNCHANGED <<call, frame, prev, clock>>

CalcCapitalGains ==
    /\ call.fn = "calculateCapitalGainsTax" /\ ~ret.done
    /\ ret' = [done |-> TRUE,
               value |-> calculateCapitalGainsTax(call.longTermCapitalGains,
                             call.taxableOrdinaryIncome, call.filingStatus)]
    /\ UNCHANGED <<call, frame, prev, clock>>

RaiseOrdinaryIncome ==
    /\ call.fn = "calculateCapitalGainsTax" /\ ret.done /\ call.raises < MaxRaises
    /\ \E step \in OrdinaryRaiseSteps :
        /\ call' = [call EXCEPT !.taxableOrdinaryIncome = @ + step, !.raises = @ + 1]
        /\ ret' = [done |-> TRUE,
                   value |-> calculateCapitalGainsTax(call.longTermCapitalGains,
                                 call.taxableOrdinaryIncome + step, call.filingStatus)]
    /\ UNCHANGED <<frame, prev, clock>>

CalcSocialSecurity ==
    /\ call.fn = "calculateSocialSecurityTaxable" /\ ~ret.done
    /\ ret' = [done |-> TRUE,
               value |-> calculateSocialSecurityTaxable(call.ssBenefits, call.otherIncome, 0,
                             call.filingStatus)]
    /\ UNCHANGED <<call, frame, prev, clock>>

RaiseOtherIncome ==
    /\ call.fn = "calculateSocialSecurityTaxable" /\ ret.done /\ call.raises < MaxRaises
    /\ \E step \in OtherRaiseSteps :
        /\ call' = [call EXCEPT !.otherIncome = @ + step, !.raises = @ + 1]
        /\ ret' = [done |-> TRUE,
                   value |-> calculateSocialSecurityTaxable(call.ssBenefits,
                                 call.otherIncome + step, 0, call.filingStatus)]
    /\ UNCHANGED <<frame, prev, clock>>

CalcRMD ==
    /\ call.fn = "calculateRMD" /\ ~ret.done
    /\ ret' = [done |-> TRUE, value |-> calculateRMD(call.age, call.priorYearEndBalance)]
    /\ UNCHANGED <<call, frame, prev, clock>>

CalcNext ==
    \/ CalcOrdinary
    \/ CalcCapitalGains
    \/ RaiseOrdinaryIncome
    \/ CalcSocialSecurity
    \/ RaiseOtherIncome
    \/ CalcRMD

SpecCalc == CalcInit /\ [][CalcNext]_vars

RECURSIVE SumIncomeInBracket(_)
SumIncomeInBracket(fill) ==
    IF fill = << >> THEN 0 ELSE Head(fill).incomeInBracket + SumIncomeInBracket(Tail(fill))

RECURSIVE SumTaxFromBracket(_)
SumTaxFromBracket(fill) ==
    IF fill = << >> THEN 0 ELSE Head(fill).taxFromBracket + SumTaxFromBracket(Tail(fill))

OrdinaryReturned == call.fn = "calculateOrdinaryIncomeTax" /\ ret.done
CapGainsReturned == call.fn = "calculateCapitalGainsTax" /\ ret.done
SocialSecurityReturned == call.fn = "calculateSocialSecurityTaxable" /\ ret.done
RMDReturned == call.fn = "calculateRMD" /\ ret.done

\* C3: for a taxable income I >= 0 the incomeInBracket values of the returned
\* bracketFill sum to I and its taxFromBracket values sum to the returned tax;
\* for I <= 0 the tax is 0, the fill list is empty and the marginal rate is 0.
C3_BracketCoverage ==
    OrdinaryReturned =>
        /\ call.taxableIncome >= 0 =>
              /\ SumIncomeInBracket(ret.value.bracketFill) = call.taxableIncome
              /\ SumTaxFromBracket(ret.value.bracketFill) = ret.value.tax
        /\ call.taxableIncome <= 0 =>
              /\ ret.value.tax = 0
              /\ ret.value.bracketFill = << >>
              /\ ret.value.marginalRate = 0

\* an income that reaches into the unbounded top bracket has been taxed
C3_Witness ==
    /\ OrdinaryReturned
    /\ Len(ret.value.bracketFill) = Len(FEDERAL_BRACKETS[call.filingStatus])
    /\ ret.value.marginalRate = 37
    /\ ret.value.tax > 0

\* C4: with the gains and the filing status fixed, calling with a larger
\* taxable ordinary income never returns a smaller capital-gains tax.
C4_StackingMonotone ==
    [][RaiseOrdinaryIncome => ret'.value.tax >= ret.value.tax]_vars

\* the ordinary income has been raised under gains that are taxed
C4_Witness ==
    /\ CapGainsReturned
    /\ call.raises > 0
    /\ call.longTermCapitalGains > 0
    /\ Len(ret.value.bracketBreakdown) >= 2
    /\ ret.value.tax > 0

\* C5: the returned taxableAmount is at most 0.85 x the benefit.
C5_CapAt85Percent ==
    SocialSecurityReturned => 100 * ret.value.taxableAmount <= 85 * call.ssBenefits

\* C6: with the benefit and the filing status fixed, calling with a larger
\* other income never returns a smaller (rounded) taxableAmount.
C6_TaxableMonotone ==
    [][RaiseOtherIncome => ret'.value.taxableAmount >= ret.value.taxableAmount]_vars

\* the other income has been raised across the second threshold
C6_Witness ==
    /\ SocialSecurityReturned
    /\ call.raises > 0
    /\ ret.value.provisionalIncome > ssThresholds(call.filingStatus).fiftyThreshold
    /\ ret.value.provisionalIncome <= ssThresholds(call.filingStatus).fiftyThreshold + Usd(1)
    /\ ret.value.taxableAmount > 0

\* the two provisional incomes of the boundary
AtZeroThreshold ==
    ret.value.provisionalIncome = ssThresholds(call.filingStatus).zeroThreshold
DollarAboveZeroThreshold ==
    ret.value.provisionalIncome = ssThresholds(call.filingStatus).zeroThreshold + Usd(1)

\* C7 as stated: for a positive benefit, a provisional income at the zero
\* threshold gives a taxable amount of 0 and one a dollar above gives one > 0.
C7_BoundaryAnyBenefit ==
    (SocialSecurityReturned /\ call.ssBenefits > 0) =>
        /\ AtZeroThreshold => ret.value.taxableAmount = 0
        /\ DollarAboveZeroThreshold => ret.value.taxableAmount > 0

\* C7: for a benefit of at least one dollar, a provisional income at the zero
\* threshold gives a taxable amount of 0 and one a dollar above gives one > 0.
C7_BoundaryDollarBenefit ==
    (SocialSecurityReturned /\ call.ssBenefits >= Usd(1)) =>
        /\ AtZeroThreshold => ret.value.taxableAmount = 0
        /\ DollarAboveZeroThreshold => ret.value.taxableAmount > 0

\* a benefit of at least a dollar taxed a dollar above the joint threshold
C7_Witness ==
    /\ SocialSecurityReturned
    /\ call.ssBenefits >= Usd(1)
    /\ call.filingStatus = "mfj"
    /\ DollarAboveZeroThreshold
    /\ ret.value.taxableAmount = Usd(1)

\* amount is B / D rounded to the dollar, halves up; D is in tenths
IsRounded(amount, balance, tenths) ==
    /\ amount % SCALE = 0
    /\ (2 * (amount \div SCALE) - 1) * tenths * (SCALE \div 20) <= balance
    /\ balance < (2 * (amount \div SCALE) + 1) * tenths * (SCALE \div 20)

\* C8: below age 73 or with a prior-year balance <= 0 nothing is required and
\* the amount is 0; from 73 on with a positive balance B the distribution is
\* required and is round(B / D), D the divisor of the age, that of 120 beyond it.
C8_RMDRule ==
    RMDReturned =>
        IF call.age < 73 \/ call.priorYearEndBalance <= 0
        THEN ~ret.value.isRequired /\ ret.value.amount = 0
        ELSE /\ ret.value.isRequired
             /\ IsRounded(ret.value.amount, call.priorYearEndBalance,
                          UNIFORM_LIFETIME_TABLE[Min(call.age, 120)])

\* a required distribution beyond the end of the table
C8_Witness ==
    /\ RMDReturned
    /\ call.age > 120
    /\ ret.value.isRequired
    /\ ret.value.amount > 0

----
\* generateStrategy called on its own. The call returns at once for a gross
\* goal; for an after-tax goal it enters the refinement loop, which runs one
\* pass per step and returns when the loop's test fails.

GoalStep == 45000
MaxGoalK == 3

StrategyPortfolios ==
    [traditional : {NoTraditional, Traditional(Usd(40000)), Traditional(Usd(500000)),
                    TraditionalWithPrior(Usd(10000), Usd(600000))},
     taxable : {NoTaxable, Taxable(Usd(100000), Usd(60000)), Taxable(Usd(50000), Usd(50000))},
     roth : {NoRoth, Roth(Usd(30000))},
     socialSecurity : {NoSocialSecurity, SocialSecurity(Usd(24000))},
     pension : {NoPension, Pension(Usd(12000), 20)}]

StrategyGoals ==
    [targetType : {"gross", "afterTax"},
     amount : {Usd(k * GoalStep) : k \in 0..MaxGoalK},
     filingStatus : {"single", "mfj"},
     primaryAge : {65, RMD_START_AGE, MaxAge},
     useItemizedDeductions : {FALSE},
     itemizedAmount : {0},
     stateTaxMethod : {"none", "rate"},
     stateTaxRate : {50},
     stateTaxFixedAmount : {0},
     planningHorizon : {95}]

StrategyInit ==
    /\ \E portfolio \in StrategyPortfolios, goal \in StrategyGoals :
          call = [fn |-> "generateStrategy", portfolio |-> portfolio, goal |-> goal]
    /\ frame = NoFrame
    /\ ret = NoRet
    /\ prev = NoRet
    /\ clock = 0

\* the locals of refineForAfterTaxTarget
refineFrame(strategy, portfolio, goal, iterations) ==
    [pc |-> "refine", strategy |-> strategy,
     breakdown |-> calculateTaxBreakdown(strategy, portfolio, goal),
     iterations |-> iterations]

\* a gross goal: the rounded strategy is returned as it is
GenerateForGross ==
    /\ call.fn = "generateStrategy" /\ frame.pc = "none" /\ ~ret.done
    /\ call.goal.targetType = "gross"
    /\ ret' = [done |-> TRUE, value |-> initialStrategyOf(call.portfolio, call.goal)]
    /\ frame' = [pc |-> "returned"]
    /\ UNCHANGED <<call, prev, clock>>

\* an after-tax goal: refineForAfterTaxTarget starts on the rounded strategy
GenerateForAfterTax ==
    /\ call.fn = "generateStrategy" /\ frame.pc = "none" /\ ~ret.done
    /\ call.goal.targetType = "afterTax"
    /\ frame' = refineFrame(initialStrategyOf(call.portfolio, call.goal),
                            call.portfolio, call.goal, 0)
    /\ UNCHANGED <<call, ret, prev, clock>>

\* a pass of a while loop that does not count its iterations
RefineIterateUncapped ==
    /\ frame.pc = "refine"
    /\ ~refineConverged(frame.breakdown, call.goal)
    /\ frame' = refineFrame(refineIteration(frame.strategy,
                                call.goal.amount - frame.breakdown.afterTaxIncome,
                                call.portfolio),
                            call.portfolio, call.goal, frame.iterations + 1)
    /\ UNCHANGED <<call, ret, prev, clock>>

\* one pass of the while loop
RefineIterate ==
    /\ frame.pc = "refine"
    /\ frame.iterations < maxIterations
    /\ ~refineConverged(frame.breakdown, call.goal)
    /\ frame' = refineFrame(refineIteration(frame.strategy,
                                call.goal.amount - frame.breakdown.afterTaxIncome,
                                call.portfolio),
                            call.portfolio, call.goal, frame.iterations + 1)
    /\ UNCHANGED <<call, ret, prev, clock>>

\* the loop is left: the strategy is returned
RefineReturn ==
    /\ frame.pc = "refine"
    /\ frame.iterations >= maxIterations \/ refineConverged(frame.breakdown, call.goal)
    /\ ret' = [done |-> TRUE, value |-> frame.strategy]
    /\ frame' = [frame EXCEPT !.pc = "returned"]
    /\ UNCHANGED <<call, prev, clock>>

StrategyNext ==
    \/ GenerateForGross
    \/ GenerateForAfterTax
    \/ RefineIterate
    \/ RefineReturn

SpecStrategy == StrategyInit /\ [][StrategyNext]_vars

\* the loop run in steps returns what the function returns
StepsAgreeWithFunction ==
    (call.fn = "generateStrategy" /\ ret.done) =>
        ret.value = generateStrategy(call.portfolio, call.goal)

\* the strategy the call holds: the one under refinement, or the one returned
StrategyHeld == IF ret.done THEN ret.value ELSE frame.strategy

\* C1: the strategy generateStrategy returns, and the strategy held after the
\* first rounding and after every pass of the refinement loop, has
\* traditionalWithdrawal >= rmdAmount, with rmdAmount the amount of
\* calculateRMD(primaryAge, priorYearEndBalance defaulting to balance); and
\* calculateTaxBreakdown reports rmdIsSatisfied for the returned strategy.
C1_RMDFloor ==
    (call.fn = "generateStrategy" /\ (ret.done \/ frame.pc = "refine")) =>
        /\ StrategyHeld.rmdAmount = rmdRequiredOf(call.portfolio, call.goal)
        /\ StrategyHeld.traditionalWithdrawal >= StrategyHeld.rmdAmount
        /\ ret.done =>
              calculateTaxBreakdown(ret.value, call.portfolio, call.goal).rmdIsSatisfied

\* a refinement that ran at least twice has returned a strategy that sits on
\* a positive RMD, with an after-tax goal the RMD alone overshoots
C1_Witness ==
    /\ call.fn = "generateStrategy" /\ ret.done
    /\ call.goal.targetType = "afterTax"
    /\ frame.pc = "returned" /\ frame.iterations >= 2
    /\ ret.value.rmdAmount > 0
    /\ ret.value.traditionalWithdrawal = ret.value.rmdAmount
    /\ frame.breakdown.afterTaxIncome > call.goal.amount

----
\* generateRetirementProjection called, and called again with the same
\* arguments. The call reads the year of the system clock once, runs the loop
\* one age per step and returns. The clock moves on between steps of no call.

MaxHorizon == 2
MaxTicks == 1
StartYear == 2026

ProjectionPortfolios ==
    {[traditional |-> NoTraditional, taxable |-> NoTaxable, roth |-> Roth(Usd(100000)),
      socialSecurity |-> NoSocialSecurity, pension |-> NoPension],
     [traditional |-> Traditional(Usd(200000)), taxable |-> NoTaxable, roth |-> NoRoth,
      socialSecurity |-> NoSocialSecurity, pension |-> NoPension],
     [traditional |-> Traditional(Usd(200000)), taxable |-> Taxable(Usd(100000), Usd(60000)),
      roth |-> Roth(Usd(100000)), socialSecurity |-> NoSocialSecurity, pension |-> NoPension],
     [traditional |-> NoTraditional, taxable |-> Taxable(Usd(100000), Usd(60000)),
      roth |-> NoRoth, socialSecurity |-> SocialSecurity(Usd(24000)), pension |-> NoPension],
     [traditional |-> Traditional(Usd(200000)), taxable |-> Taxable(Usd(100000), Usd(60000)),
      roth |-> Roth(Usd(100000)), socialSecurity |-> SocialSecurity(Usd(24000)),
      pension |-> Pension(Usd(12000), 20)],
     [traditional |-> NoTraditional, taxable |-> NoTaxable, roth |-> NoRoth,
      socialSecurity |-> SocialSecurity(Usd(24000)), pension |-> NoPension],
     [traditional |-> NoTraditional, taxable |-> NoTaxable, roth |-> NoRoth,
      socialSecurity |-> NoSocialSecurity, pension |-> NoPension]}

ProjectionGoals ==
    {[targetType |-> targetType, amount |-> amount, filingStatus |-> "single",
      primaryAge |-> primaryAge, useItemizedDeductions |-> FALSE, itemizedAmount |-> 0,
      stateTaxMethod |-> "none", stateTaxRate |-> 0, stateTaxFixedAmount |-> 0,
      planningHorizon |-> primaryAge + horizon] :
        targetType \in {"gross", "afterTax"},
        amount \in {Usd(60000), Usd(150000)},
        primaryAge \in {65, RMD_START_AGE - 1},
        horizon \in 0..MaxHorizon}

ProjectionAssumptions ==
    {[growthRate |-> 0, inflationRate |-> 0, socialSecurityCOLA |-> 0],
     [growthRate |-> 50, inflationRate |-> 25, socialSecurityCOLA |-> 25]}

NoInitial == [present |-> FALSE]

\* a first year set by hand: the whole goal out of the traditional account
initialOf(strategy, portfolio, goal) ==
    [present |-> TRUE, strategy |-> strategy,
     breakdown |-> calculateTaxBreakdown(strategy, portfolio, goal)]

handSetStrategy(portfolio, goal) ==
    [traditionalWithdrawal |-> Min(balanceOf(portfolio.traditional), goal.amount),
     taxableWithdrawal     |-> 0,
     rothWithdrawal        |-> 0,
     socialSecurityIncome  |-> annualBenefitOf(portfolio.socialSecurity),
     pensionIncome         |-> annualBenefitOf(portfolio.pension),
     rmdAmount             |-> rmdRequiredOf(portfolio, goal),
     isSystemGenerated     |-> FALSE]

ProjectionInit ==
    /\ \E portfolio \in ProjectionPortfolios, goal \in ProjectionGoals,
          assumptions \in ProjectionAssumptions :
          \E initial \in {NoInitial,
                          initialOf(handSetStrategy(portfolio, goal), portfolio, goal)} :
             call = [fn |-> "generateRetirementProjection", portfolio |-> portfolio,
                     goal |-> goal, assumptions |-> assumptions, initial |-> initial]
    /\ frame = NoFrame
    /\ ret = NoRet
    /\ prev = NoRet
    /\ clock = StartYear

\* lines 42-60: the call starts and reads the clock
ProjectionStart ==
    /\ call.fn = "generateRetirementProjection" /\ frame.pc = "none" /\ ~ret.done
    /\ frame' = projectionLocals(call.portfolio, call.goal, clock)
    /\ UNCHANGED <<call, ret, prev, clock>>

\* lines 62-200: one age of the loop
ProjectionYear ==
    /\ frame.pc = "loop"
    /\ frame.age <= call.goal.planningHorizon
    /\ frame' = projectYear(frame, call)
    /\ UNCHANGED <<call, ret, prev, clock>>

\* lines 202-215: the loop is over
ProjectionReturn ==
    /\ frame.pc = "loop"
    /\ frame.age > call.goal.planningHorizon
    /\ ret' = [done |-> TRUE, value |-> projectionOf(frame, call)]
    /\ frame' = [frame EXCEPT !.pc = "returned"]
    /\ UNCHANGED <<call, prev, clock>>

\* the same call is made again
CallAgain ==
    /\ ret.done /\ ~prev.done
    /\ prev' = ret
    /\ ret' = NoRet
    /\ frame' = NoFrame
    /\ UNCHANGED <<call, clock>>

\* a new year begins
Tick ==
    /\ frame.pc # "loop"
    /\ clock < StartYear + MaxTicks
    /\ clock' = clock + 1
    /\ UNCHANGED <<call, frame, ret, prev>>

ProjectionNext ==
    \/ ProjectionStart
    \/ ProjectionYear
    \/ ProjectionReturn
    \/ CallAgain
    \/ Tick

SpecProjection == ProjectionInit /\ [][ProjectionNext]_vars

----
\* Claims on generateRetirementProjection

ProjectionReturned == call.fn = "generateRetirementProjection" /\ ret.done

accountWithdrawals(yearData) ==
    yearData.withdrawals.traditional + yearData.withdrawals.taxable + yearData.withdrawals.roth

\* the withdrawals of every recorded year exceed the first balance divided by
\* the number of years, or take all that is left
WithdrawalsExceedShare(years) ==
    /\ Len(years) >= 1
    /\ years[1].balances.total > 0
    /\ \A i \in 1..Len(years) :
          \/ accountWithdrawals(years[i]) * Len(years) > years[1].balances.total
          \/ accountWithdrawals(years[i]) = years[i].balances.total

FirstAgeAtZero(years, age) ==
    \E i \in 1..Len(years) :
       /\ years[i].age = age
       /\ years[i].balances.total = 0
       /\ \A j \in 1..(i - 1) : years[j].balances.total > 0

\* C2: with zero growth and yearly withdrawals exceeding the total balance
\* divided by the number of projected years, the projection returned is not
\* sustainable and its depletionAge is the first age at which the balances
\* reach 0, for every horizon of at least one year.
C2_DepletionReported ==
    (/\ ProjectionReturned
     /\ call.assumptions.growthRate = 0
     /\ WithdrawalsExceedShare(ret.value.years))
    => (/\ ~ret.value.isSustainable
        /\ ret.value.depletionAge # NullAge
        /\ FirstAgeAtZero(ret.value.years, ret.value.depletionAge))

\* C9: two calls of generateRetirementProjection with the same arguments
\* return the same projection in every field, the year of each year included.
C9_SameProjection ==
    (ProjectionReturned /\ prev.done) => ret.value = prev.value

----
\* calculateTaxBreakdown called, and called again with the same arguments. The
\* arguments are objects the caller holds: call.strategy, call.portfolio and
\* call.goal are what they hold once the call has returned.

Fractions(balance) == {0, balance \div 2, balance}

BreakdownStrategies(portfolio) ==
    {[traditionalWithdrawal |-> traditionalWithdrawal,
      taxableWithdrawal     |-> taxableWithdrawal,
      rothWithdrawal        |-> rothWithdrawal,
      socialSecurityIncome  |-> annualBenefitOf(portfolio.socialSecurity),
      pensionIncome         |-> annualBenefitOf(portfolio.pension),
      rmdAmount             |-> rmdAmount,
      isSystemGenerated     |-> FALSE] :
        traditionalWithdrawal \in Fractions(balanceOf(portfolio.traditional)),
        taxableWithdrawal \in Fractions(balanceOf(portfolio.taxable)),
        rothWithdrawal \in Fractions(balanceOf(portfolio.roth)),
        rmdAmount \in {0, Usd(8000)}}

BreakdownGoals ==
    {[targetType |-> "gross", amount |-> Usd(60000), filingStatus |-> filingStatus,
      primaryAge |-> primaryAge, useItemizedDeductions |-> FALSE, itemizedAmount |-> 0,
      stateTaxMethod |-> stateTaxMethod, stateTaxRate |-> 50, stateTaxFixedAmount |-> 0,
      planningHorizon |-> 95] :
        filingStatus \in FilingStatus,
        primaryAge \in {64, RMD_START_AGE + 2},
        stateTaxMethod \in {"none", "rate"}}

BreakdownInit ==
    /\ \E portfolio \in ProjectionPortfolios, goal \in BreakdownGoals :
          \E strategy \in BreakdownStrategies(portfolio) :
             call = [fn |-> "calculateTaxBreakdown", strategy |-> strategy,
                     portfolio |-> portfolio, goal |-> goal]
    /\ frame = NoFrame
    /\ ret = NoRet
    /\ prev = NoRet
    /\ clock = StartYear

\* a call that takes the withdrawal out of the caller's taxable account
TaxBreakdownCallSpendsInput ==
    /\ call.fn = "calculateTaxBreakdown" /\ ~ret.done
    /\ ret' = [done |-> TRUE,
               value |-> calculateTaxBreakdown(call.strategy, call.portfolio, call.goal)]
    /\ call' = [call EXCEPT !.portfolio.taxable.balance =
                                Max(0, @ - call.strategy.taxableWithdrawal)]
    /\ UNCHANGED <<frame, prev, clock>>

\* lines 18-209: the call returns its breakdown; no statement of it assigns to
\* a field of strategy, portfolio or goal
TaxBreakdownCall ==
    /\ call.fn = "calculateTaxBreakdown" /\ ~ret.done
    /\ ret' = [done |-> TRUE,
               value |-> calculateTaxBreakdown(call.strategy, call.portfolio, call.goal)]
    /\ UNCHANGED <<call, frame, prev, clock>>

BreakdownNext ==
    \/ TaxBreakdownCall
    \/ CallAgain
    \/ Tick

SpecBreakdown == BreakdownInit /\ [][BreakdownNext]_vars

----
\* Claims on calculateTaxBreakdown

TaxBreakdownReturns == call.fn = "calculateTaxBreakdown" /\ ~ret.done /\ ret'.done

----
\* generateStrategy, calculateTaxBreakdown and validateStrategy called on a
\* portfolio with null slots, and called again once a null slot has been
\* replaced by an account object of balance 0 or benefit 0.

OverBy == 200

\* nothing, all of the account, more than the account holds
UpToOver(amount) == {0, amount, amount + OverBy}

SlotStrategies(portfolio) ==
    {[traditionalWithdrawal |-> traditionalWithdrawal,
      taxableWithdrawal     |-> taxableWithdrawal,
      rothWithdrawal        |-> rothWithdrawal,
      socialSecurityIncome  |-> socialSecurityIncome,
      pensionIncome         |-> pensionIncome,
      rmdAmount             |-> rmdAmount,
      isSystemGenerated     |-> FALSE] :
        traditionalWithdrawal \in UpToOver(balanceOf(portfolio.traditional)),
        taxableWithdrawal \in UpToOver(balanceOf(portfolio.taxable)),
        rothWithdrawal \in UpToOver(balanceOf(portfolio.roth)),
        socialSecurityIncome \in {annualBenefitOf(portfolio.socialSecurity),
                                  annualBenefitOf(portfolio.socialSecurity) + OverBy},
        pensionIncome \in {annualBenefitOf(portfolio.pension),
                           annualBenefitOf(portfolio.pension) + OverBy},
        rmdAmount \in {0, Usd(8000)}}

SlotGoals ==
    {[targetType |-> targetType, amount |-> Usd(60000), filingStatus |-> "single",
      primaryAge |-> primaryAge, useItemizedDeductions |-> FALSE, itemizedAmount |-> 0,
      stateTaxMethod |-> "none", stateTaxRate |-> 0, stateTaxFixedAmount |-> 0,
      planningHorizon |-> 95] :
        targetType \in {"gross", "afterTax"},
        primaryAge \in {65, RMD_START_AGE + 2}}

SlotCalls ==
    {[fn |-> "generateStrategy", portfolio |-> portfolio, goal |-> goal] :
        portfolio \in ProjectionPortfolios, goal \in SlotGoals}
    \cup UNION {{[fn |-> fn, strategy |-> strategy, portfolio |-> portfolio,
                  goal |-> CHOOSE goal \in SlotGoals :
                              goal.targetType = "gross" /\ goal.primaryAge = 65] :
                    strategy \in SlotStrategies(portfolio),
                    fn \in {"calculateTaxBreakdown", "validateStrategy"}} :
                       portfolio \in ProjectionPortfolios}

SlotInit ==
    /\ call \in SlotCalls
    /\ frame = NoFrame
    /\ ret = NoRet
    /\ prev = NoRet
    /\ clock = 0

\* lines 620-656
ValidateStrategyCall ==
    /\ call.fn = "validateStrategy" /\ ~ret.done
    /\ ret' = [done |-> TRUE, value |-> validateStrategy(call.strategy, call.portfolio)]
    /\ UNCHANGED <<call, frame, prev, clock>>

SlotNames == {"traditional", "taxable", "roth", "socialSecurity", "pension"}

\* the account object of balance 0 (cost basis 0, no prior-year balance) or benefit 0
ZeroSlot(name) ==
    CASE name = "traditional" -> Traditional(0)
      [] name = "taxable" -> Taxable(0, 0)
      [] name = "roth" -> Roth(0)
      [] name = "socialSecurity" -> SocialSecurity(0)
      [] name = "pension" -> Pension(0, 0)

\* the caller replaces a null slot and makes the same call again
ReplaceNullSlot ==
    /\ ret.done
    /\ \E name \in SlotNames :
          /\ ~call.portfolio[name].present
          /\ call' = [call EXCEPT !.portfolio[name] = ZeroSlot(name)]
    /\ prev' = ret
    /\ ret' = NoRet
    /\ frame' = NoFrame
    /\ UNCHANGED clock

SlotNext ==
    \/ GenerateForGross
    \/ GenerateForAfterTax
    \/ RefineIterate
    \/ RefineReturn
    \/ TaxBreakdownCall
    \/ ValidateStrategyCall
    \/ ReplaceNullSlot

SpecSlots == SlotInit /\ [][SlotNext]_vars

----
\* Claims on validateStrategy and on null slots

CheckNames == SlotNames \cup {"rmd"}

LimitOf(portfolio, name) ==
    IF ~portfolio[name].present THEN 0
    ELSE IF name \in {"socialSecurity", "pension"} THEN portfolio[name].annualBenefit
    ELSE portfolio[name].balance

TakenOf(strategy, name) ==
    CASE name = "traditional" -> strategy.traditionalWithdrawal
      [] name = "taxable" -> strategy.taxableWithdrawal
      [] name = "roth" -> strategy.rothWithdrawal
      [] name = "socialSecurity" -> strategy.socialSecurityIncome
      [] name = "pension" -> strategy.pensionIncome

CheckFails(strategy, portfolio, name) ==
    IF name = "rmd"
    THEN strategy.rmdAmount > 0 /\ ~(strategy.traditionalWithdrawal >= strategy.rmdAmount)
    ELSE ~(TakenOf(strategy, name) <= LimitOf(portfolio, name))

TimesListed(errors, name) == Cardinality({i \in 1..Len(errors) : errors[i] = name})

ValidateReturned == call.fn = "validateStrategy" /\ ret.done

\* C11: validateStrategy returns valid exactly when its error list is empty,
\* and the list holds one violation for each failed check (each withdrawal
\* within its balance, each income within its benefit, a null slot counting as
\* 0, and the traditional withdrawal at least a positive rmdAmount) and
\* nothing else.
C11_OneErrorPerFailedCheck ==
    ValidateReturned =>
        /\ ret.value.valid <=> Len(ret.value.errors) = 0
        /\ \A i \in 1..Len(ret.value.errors) : ret.value.errors[i] \in CheckNames
        /\ \A name \in CheckNames :
              TimesListed(ret.value.errors, name) =
                  IF CheckFails(call.strategy, call.portfolio, name) THEN 1 ELSE 0

C11_Witness ==
    /\ ValidateReturned
    /\ Len(ret.value.errors) >= 3
    /\ CheckFails(call.strategy, call.portfolio, "rmd")
    /\ ~call.portfolio.roth.present /\ CheckFails(call.strategy, call.portfolio, "roth")

\* C12: generateStrategy, calculateTaxBreakdown and validateStrategy return
\* the same result once a null slot of the portfolio is replaced by an account
\* object of balance 0 (cost basis 0, no prior-year balance) or benefit 0.
C12_NullSlotIsZeroSlot ==
    (ret.done /\ prev.done) => ret.value = prev.value

C12_Witness ==
    /\ call.fn = "generateStrategy" /\ ret.done /\ prev.done
    /\ call.goal.primaryAge >= RMD_START_AGE
    /\ call.portfolio.traditional = Traditional(0)
    /\ call.portfolio.taxable = Taxable(0, 0)
    /\ ret.value.rothWithdrawal > 0

----
\* calculateTaxBreakdown called on strategies with no income, on accounts of
\* balance 0, and with each state tax method.

RatePortfolios ==
    ProjectionPortfolios
    \cup {[traditional |-> Traditional(0), taxable |-> Taxable(0, 0), roth |-> Roth(0),
           socialSecurity |-> SocialSecurity(0), pension |-> Pension(0, 0)],
          [traditional |-> NoTraditional, taxable |-> Taxable(0, 0), roth |-> Roth(Usd(100000)),
           socialSecurity |-> SocialSecurity(Usd(24000)), pension |-> NoPension]}

RateGoals ==
    {[targetType |-> "gross", amount |-> Usd(60000), filingStatus |-> filingStatus,
      primaryAge |-> 65, useItemizedDeductions |-> FALSE, itemizedAmount |-> 0,
      stateTaxMethod |-> stateTaxMethod, stateTaxRate |-> 50,
      stateTaxFixedAmount |-> Usd(500), planningHorizon |-> 95] :
        filingStatus \in FilingStatus,
        stateTaxMethod \in {"none", "rate", "fixed"}}

RateInit ==
    /\ \E portfolio \in RatePortfolios, goal \in RateGoals :
          \E strategy \in SlotStrategies(portfolio) :
             call = [fn |-> "calculateTaxBreakdown", strategy |-> strategy,
                     portfolio |-> portfolio, goal |-> goal]
    /\ frame = NoFrame
    /\ ret = NoRet
    /\ prev = NoRet
    /\ clock = 0

RateNext == TaxBreakdownCall

SpecRates == RateInit /\ [][RateNext]_vars

BreakdownReturned == call.fn = "calculateTaxBreakdown" /\ ret.done

----
\* Claims on the refinement loop of generateStrategy

errorOf(strategy, portfolio, goal) ==
    Abs(goal.amount - calculateTaxBreakdown(strategy, portfolio, goal).afterTaxIncome)

\* the least error among the strategies the loop evaluates from strategy on
RECURSIVE leastErrorFrom(_, _, _, _, _)
leastErrorFrom(strategy, iterations, least, portfolio, goal) ==
    IF iterations >= maxIterations
          \/ refineConverged(calculateTaxBreakdown(strategy, portfolio, goal), goal)
    THEN Min(least, errorOf(strategy, portfolio, goal))
    ELSE leastErrorFrom(
             refineIteration(strategy,
                 goal.amount - calculateTaxBreakdown(strategy, portfolio, goal).afterTaxIncome,
                 portfolio),
             iterations + 1, Min(least, errorOf(strategy, portfolio, goal)), portfolio, goal)

RefinedReturned ==
    call.fn = "generateStrategy" /\ call.goal.targetType = "afterTax" /\ ret.done

----
\* The three iterative solvers run one pass per step: estimateGrossForAfterTax,
\* calculateGrossForAfterTax and, inside generateStrategy, the refinement loop.

LargeTarget == 2000000

LoopTargets == {Usd(k * GoalStep) : k \in 0..MaxGoalK} \cup {Usd(LargeTarget)}

LoopCalls ==
    {[fn |-> "estimateGrossForAfterTax", afterTaxTarget |-> afterTaxTarget,
      filingStatus |-> filingStatus, deduction |-> STANDARD_DEDUCTION[filingStatus]] :
        afterTaxTarget \in LoopTargets, filingStatus \in FilingStatus}
    \cup {[fn |-> "calculateGrossForAfterTax", afterTaxTarget |-> afterTaxTarget,
           filingStatus |-> filingStatus, maxIterations |-> iterations] :
        afterTaxTarget \in LoopTargets, filingStatus \in FilingStatus,
        iterations \in {0, 1, 2, 20}}
    \cup {[fn |-> "generateStrategy", portfolio |-> portfolio, goal |-> goal] :
        portfolio \in ProjectionPortfolios, goal \in SlotGoals}

LoopInit ==
    /\ call \in LoopCalls
    /\ frame = NoFrame
    /\ ret = NoRet
    /\ prev = NoRet
    /\ clock = 0

\* line 492
EstimateStart ==
    /\ call.fn = "estimateGrossForAfterTax" /\ frame.pc = "none" /\ ~ret.done
    /\ frame' = [pc |-> "estimate", i |-> 0, gross |-> call.afterTaxTarget]
    /\ UNCHANGED <<call, ret, prev, clock>>

\* lines 494-503: a pass that does not break
EstimateIterate ==
    /\ frame.pc = "estimate"
    /\ frame.i < 10
    /\ ~(Abs(estimateDifference(frame.gross, call.afterTaxTarget, call.filingStatus,
                                call.deduction)) < Usd(500))
    /\ frame' = [frame EXCEPT
                    !.gross = @ + estimateDifference(frame.gross, call.afterTaxTarget,
                                                     call.filingStatus, call.deduction),
                    !.i = @ + 1]
    /\ UNCHANGED <<call, ret, prev, clock>>

\* the break of line 499, or i = 10: line 506
EstimateReturn ==
    /\ frame.pc = "estimate"
    /\ \/ frame.i >= 10
       \/ Abs(estimateDifference(frame.gross, call.afterTaxTarget, call.filingStatus,
                                 call.deduction)) < Usd(500)
    /\ ret' = [done |-> TRUE, value |-> frame.gross]
    /\ frame' = [frame EXCEPT !.pc = "returned"]
    /\ UNCHANGED <<call, prev, clock>>

\* line 239
GrossStart ==
    /\ call.fn = "calculateGrossForAfterTax" /\ frame.pc = "none" /\ ~ret.done
    /\ frame' = [pc |-> "gross", i |-> 0, grossEstimate |-> Frac(call.afterTaxTarget, 4, 3)]
    /\ UNCHANGED <<call, ret, prev, clock>>

\* lines 241-253: a pass that does not break
GrossIterate ==
    /\ frame.pc = "gross"
    /\ frame.i < call.maxIterations
    /\ ~(Abs(grossDifference(frame.grossEstimate, call.afterTaxTarget, call.filingStatus))
            < Usd(100))
    /\ frame' = [frame EXCEPT
                    !.grossEstimate = @ + grossDifference(frame.grossEstimate,
                                              call.afterTaxTarget, call.filingStatus),
                    !.i = @ + 1]
    /\ UNCHANGED <<call, ret, prev, clock>>

\* the break of line 248, or i = maxIterations: line 255
GrossReturn ==
    /\ frame.pc = "gross"
    /\ \/ frame.i >= call.maxIterations
       \/ Abs(grossDifference(frame.grossEstimate, call.afterTaxTarget, call.filingStatus))
             < Usd(100)
    /\ ret' = [done |-> TRUE, value |-> MathRound(frame.grossEstimate)]
    /\ frame' = [frame EXCEPT !.pc = "returned"]
    /\ UNCHANGED <<call, prev, clock>>

LoopNext ==
    \/ EstimateStart
    \/ EstimateIterate
    \/ EstimateReturn
    \/ GrossStart
    \/ GrossIterate
    \/ GrossReturn
    \/ GenerateForGross
    \/ GenerateForAfterTax
    \/ RefineIterate
    \/ RefineReturn

SpecLoops == LoopInit /\ [][LoopNext]_vars

----
\* Claims on the iterative solvers

EstimateResidual ==
    Abs(estimateDifference(frame.gross, call.afterTaxTarget, call.filingStatus, call.deduction))

GrossResidual ==
    Abs(grossDifference(frame.grossEstimate, call.afterTaxTarget, call.filingStatus))

RefineResidual == Abs(call.goal.amount - frame.breakdown.afterTaxIncome)

InEstimate == call.fn = "estimateGrossForAfterTax" /\ frame.pc # "none"

InGross == call.fn = "calculateGrossForAfterTax" /\ frame.pc # "none"

InRefine ==
    call.fn = "generateStrategy" /\ call.goal.targetType = "afterTax" /\ frame.pc # "none"

\* the iterations stay within the caps, and a loop left before its cap was
\* left with the residual inside the tolerance
LoopsWithinCaps ==
    /\ InEstimate => /\ frame.i <= 10
                     /\ (ret.done /\ frame.i < 10) => EstimateResidual < Usd(500)
    /\ InGross => /\ frame.i <= call.maxIterations /\ frame.i <= 20
                  /\ (ret.done /\ frame.i < call.maxIterations) => GrossResidual < Usd(100)
    /\ InRefine => /\ frame.iterations <= 15
                   /\ frame.iterations + 1 <= 16
                   /\ (ret.done /\ frame.iterations < 15) => RefineResidual < Usd(500)

\* a further pass is made only with the residual outside the tolerance
PassOutsideTolerance ==
    /\ (InEstimate /\ frame'.i = frame.i + 1) => EstimateResidual >= Usd(500)
    /\ (InGross /\ frame'.i = frame.i + 1) => GrossResidual >= Usd(100)
    /\ (InRefine /\ frame'.pc = "refine" /\ frame'.iterations = frame.iterations + 1)
          => RefineResidual >= Usd(500)

\* a call that has not returned is at a statement from which its loop makes
\* a further pass or is left
NotStuck == ~ret.done => frame.pc \in {"none", "estimate", "gross", "refine"}

\* C15: every call takes finitely many steps and stops only once it has
\* returned; estimateGrossForAfterTax makes at most 10 iterations, the
\* refinement loop at most 15 (16 evaluations of the breakdown),
\* calculateGrossForAfterTax at most maxIterations (20 by default), and each
\* leaves its loop as soon as the residual is inside its tolerance.
C15_BoundedIteration ==
    /\ [](LoopsWithinCaps /\ NotStuck)
    /\ [][PassOutsideTolerance]_vars
    /\ <>[][FALSE]_vars

C15_Witness ==
    /\ InRefine /\ ret.done
    /\ frame.iterations = maxIterations
    /\ RefineResidual >= Usd(500)

----
\* calculateTaxBreakdown called on goals with and without itemized deductions.

ItemizedBelow == 10000
ItemizedAbove == 50000

ItemizedAmounts(filingStatus) ==
    {0, Usd(ItemizedBelow), STANDARD_DEDUCTION[filingStatus], Usd(ItemizedAbove)}

DeductionGoals ==
    UNION {{[targetType |-> "gross", amount |-> Usd(60000), filingStatus |-> filingStatus,
             primaryAge |-> 65, useItemizedDeductions |-> useItemizedDeductions,
             itemizedAmount |-> itemizedAmount,
             stateTaxMethod |-> "none", stateTaxRate |-> 0, stateTaxFixedAmount |-> 0,
             planningHorizon |-> 95] :
                useItemizedDeductions \in BOOLEAN,
                itemizedAmount \in ItemizedAmounts(filingStatus)} :
                    filingStatus \in FilingStatus}

DeductionInit ==
    /\ \E portfolio \in ProjectionPortfolios, goal \in DeductionGoals :
          \E strategy \in BreakdownStrategies(portfolio) :
             call = [fn |-> "calculateTaxBreakdown", strategy |-> strategy,
                     portfolio |-> portfolio, goal |-> goal]
    /\ frame = NoFrame
    /\ ret = NoRet
    /\ prev = NoRet
    /\ clock = 0

DeductionNext == TaxBreakdownCall

SpecDeductions == DeductionInit /\ [][DeductionNext]_vars

\* deductionType names the deduction that was applied
TypeNamesDeduction ==
    /\ ret.value.deductionType \in {"standard", "itemized"}
    /\ ret.value.deductionType = "standard"
          => ret.value.deductions = STANDARD_DEDUCTION[call.goal.filingStatus]
    /\ ret.value.deductionType = "itemized"
          => ret.value.deductions = call.goal.itemizedAmount

\* C16 as stated: the deduction applied is max(standard deduction of the filing
\* status, the goal's itemized amount), and deductionType names the one used.
C16_DeductionIsMax ==
    BreakdownReturned =>
        /\ ret.value.deductions = Max(STANDARD_DEDUCTION[call.goal.filingStatus],
                                      call.goal.itemizedAmount)
        /\ TypeNamesDeduction

\* C16: with the goal's itemized-deduction flag set the deduction applied is
\* max(standard deduction, itemized amount); with the flag not set it is the
\* standard deduction whatever the itemized amount; deductionType names the
\* one used.
C16_DeductionIsMaxWhenItemizing ==
    BreakdownReturned =>
        /\ ret.value.deductions =
              IF call.goal.useItemizedDeductions
              THEN Max(STANDARD_DEDUCTION[call.goal.filingStatus], call.goal.itemizedAmount)
              ELSE STANDARD_DEDUCTION[call.goal.filingStatus]
        /\ TypeNamesDeduction

C16_Witness ==
    /\ BreakdownReturned
    /\ call.goal.useItemizedDeductions
    /\ call.goal.itemizedAmount > STANDARD_DEDUCTION[call.goal.filingStatus]
    /\ ret.value.deductionType = "itemized"
    /\ ret.value.taxableIncome > 0

----
\* Claims on the depletion age and the first-year override of the projection

InProjectionLoop ==
    call.fn = "generateRetirementProjection" /\ frame.pc \in {"loop", "returned"}

\* a pass of the loop over the ages
YearPassed == InProjectionLoop /\ frame.pc = "loop" /\ frame'.pc = "loop"

\* C17: the projection returned has isSustainable true exactly when
\* depletionAge is null; depletionAge lies in [startAge, endAge]; it is set in
\* the first year that starts with traditional + taxable + Roth <= 0, to the
\* age of that year, and no later year changes it.
C17_DepletionAge ==
    /\ [](ProjectionReturned =>
             /\ ret.value.isSustainable <=> ret.value.depletionAge = NullAge
             /\ ret.value.depletionAge = frame.depletionAge)
    /\ []((InProjectionLoop /\ frame.depletionAge # NullAge) =>
             /\ frame.depletionAge >= call.goal.primaryAge
             /\ frame.depletionAge <= call.goal.planningHorizon
             /\ frame.depletionAge < frame.age)
    /\ [][YearPassed =>
             frame'.depletionAge =
                 IF frame.depletionAge # NullAge THEN frame.depletionAge
                 ELSE IF totalBalanceOf(frame) <= 0 THEN frame.age
                 ELSE NullAge]_vars

C17_Witness ==
    /\ ProjectionReturned
    /\ ret.value.depletionAge # NullAge
    /\ ret.value.depletionAge > call.goal.primaryAge
    /\ ret.value.depletionAge < call.goal.planningHorizon
    /\ ret.value.years[1].balances.total > 0

----
\* generateRetirementProjection called with a first-year strategy and
\* breakdown: the breakdown of that strategy, or one computed for another
\* filing status.

OverrideInit ==
    /\ \E portfolio \in ProjectionPortfolios, goal \in ProjectionGoals,
          assumptions \in ProjectionAssumptions :
          \E initial \in {initialOf(handSetStrategy(portfolio, goal), portfolio, goal),
                          initialOf(handSetStrategy(portfolio, goal), portfolio,
                                    [goal EXCEPT !.filingStatus = "mfj"])} :
             call = [fn |-> "generateRetirementProjection", portfolio |-> portfolio,
                     goal |-> goal, assumptions |-> assumptions, initial |-> initial]
    /\ frame = NoFrame
    /\ ret = NoRet
    /\ prev = NoRet
    /\ clock = StartYear

OverrideNext ==
    \/ ProjectionStart
    \/ ProjectionYear
    \/ ProjectionReturn

SpecOverride == OverrideInit /\ [][OverrideNext]_vars

\* the record of a year holds the withdrawals, income and rmdAmount of
\* strategy and the taxes, after-tax income and effective rate of breakdown
YearRecords(yearData, strategy, breakdown) ==
    /\ yearData.withdrawals.traditional = strategy.traditionalWithdrawal
    /\ yearData.withdrawals.taxable = strategy.taxableWithdrawal
    /\ yearData.withdrawals.roth = strategy.rothWithdrawal
    /\ yearData.withdrawals.socialSecurity = strategy.socialSecurityIncome
    /\ yearData.withdrawals.pension = strategy.pensionIncome
    /\ yearData.rmdAmount = strategy.rmdAmount
    /\ yearData.taxes.federal = breakdown.ordinaryIncomeTax + breakdown.capitalGainsTax
    /\ yearData.taxes.state = breakdown.stateTax
    /\ yearData.taxes.total = breakdown.totalTax
    /\ yearData.afterTaxIncome = breakdown.afterTaxIncome
    /\ yearData.effectiveRate = breakdown.effectiveRate

\* the balance a year starts with after the withdrawal of the year before
BalanceAfter(balance, withdrawal) ==
    timesOnePlus(Max(0, balance - withdrawal), call.assumptions.growthRate)

SecondYearFromOverride ==
    /\ frame.traditionalBalance =
           BalanceAfter(balanceOf(call.portfolio.traditional),
                        call.initial.strategy.traditionalWithdrawal)
    /\ frame.taxableBalance =
           BalanceAfter(balanceOf(call.portfolio.taxable),
                        call.initial.strategy.taxableWithdrawal)
    /\ frame.rothBalance =
           BalanceAfter(balanceOf(call.portfolio.roth), call.initial.strategy.rothWithdrawal)

\* the record the pass adds is that of generateStrategy on the year's
\* portfolio and inflated goal
RegeneratedWith(yearPortfolio, adjustedGoal) ==
    YearRecords(frame'.years[Len(frame'.years)],
                generateStrategy(yearPortfolio, adjustedGoal),
                calculateTaxBreakdown(generateStrategy(yearPortfolio, adjustedGoal),
                                      yearPortfolio, adjustedGoal))

\* C18: with an initial strategy and breakdown passed, the first projected
\* year records that strategy's withdrawals, income and rmdAmount and that
\* breakdown's taxes, after-tax income and effective rate; the second year
\* starts with the balances left by those withdrawals; every later year
\* records the strategy generateStrategy returns for the inflated goal and
\* the balances of that year.
C18_FirstYearOverride ==
    /\ []((InProjectionLoop /\ call.initial.present /\ Len(frame.years) >= 1) =>
             YearRecords(frame.years[1], call.initial.strategy, call.initial.breakdown))
    /\ []((InProjectionLoop /\ call.initial.present /\ Len(frame.years) = 1) =>
             SecondYearFromOverride)
    /\ [][(YearPassed /\ call.initial.present /\ frame.age > call.goal.primaryAge) =>
             RegeneratedWith(yearPortfolioOf(frame, pensionColaOf(call.portfolio)),
                             adjustedGoalOf(call.goal, frame))]_vars

C18_Witness ==
    /\ ProjectionReturned /\ call.initial.present
    /\ Len(ret.value.years) >= 3
    /\ call.initial.strategy # generateStrategy(call.portfolio, call.goal)
    /\ call.initial.breakdown
          # calculateTaxBreakdown(call.initial.strategy, call.portfolio, call.goal)
    /\ ret.value.years[1].taxes.total = call.initial.breakdown.totalTax
    /\ ret.value.years[3].withdrawals.total > 0

----
\* Claims on the phases of generateStrategy

GrossGenerated ==
    call.fn = "generateStrategy" /\ call.goal.targetType = "gross" /\ ret.done

RothLeft == ret.value.rothWithdrawal < balanceOf(call.portfolio.roth)

\* C19: for a gross goal with no RMD due, when the Roth balance is not fully
\* used and the traditional withdrawal is > 0, calculateTaxBreakdown on the
\* strategy returned reports a marginal ordinary rate of at most 12%.
C19_LowBracketsKept ==
    (GrossGenerated /\ ret.value.rmdAmount = 0 /\ RothLeft
         /\ ret.value.traditionalWithdrawal > 0)
    => calculateTaxBreakdown(ret.value, call.portfolio, call.goal).marginalOrdinaryRate <= 12

\* C20: for a gross goal, when the Roth balance is not fully used and the
\* taxable withdrawal is > 0, calculateTaxBreakdown on the strategy returned
\* reports capitalGainsTax = 0.
C20_GainsAtZeroRate ==
    (GrossGenerated /\ RothLeft /\ ret.value.taxableWithdrawal > 0)
    => calculateTaxBreakdown(ret.value, call.portfolio, call.goal).capitalGainsTax = 0

----
\* Claims on what a gross goal attains

\* the five amounts of a strategy, summed
strategyTotal(strategy) ==
    strategy.traditionalWithdrawal + strategy.taxableWithdrawal + strategy.rothWithdrawal
        + strategy.socialSecurityIncome + strategy.pensionIncome

\* forced income: the benefits and the RMD
ForcedIncome(portfolio, goal) ==
    annualBenefitOf(portfolio.socialSecurity) + annualBenefitOf(portfolio.pension)
        + rmdRequiredOf(portfolio, goal)

\* the benefits and the three balances
Resources(portfolio) ==
    annualBenefitOf(portfolio.socialSecurity) + annualBenefitOf(portfolio.pension)
        + balanceOf(portfolio.traditional) + balanceOf(portfolio.taxable)
        + balanceOf(portfolio.roth)

NoSeparatePrior(portfolio) ==
    ~(portfolio.traditional.present /\ portfolio.traditional.hasPrior)

AllWithdrawnInFull(strategy, portfolio) ==
    /\ strategy.traditionalWithdrawal = balanceOf(portfolio.traditional)
    /\ strategy.taxableWithdrawal = balanceOf(portfolio.taxable)
    /\ strategy.rothWithdrawal = balanceOf(portfolio.roth)

\* C21: for a gross goal on a portfolio without a separate prior-year
\* balance, the five amounts of the returned strategy sum to within 2 dollars
\* of max(F, min(target, R)), F the forced income and R the benefits plus the
\* three balances; the sum is short of the target only when every account is
\* withdrawn in full, and above it only when the forced income is above it.
C21_GrossGoalAttained ==
    (GrossGenerated /\ NoSeparatePrior(call.portfolio)) =>
        /\ Abs(strategyTotal(ret.value)
               - Max(ForcedIncome(call.portfolio, call.goal),
                     Min(call.goal.amount, Resources(call.portfolio)))) < Usd(2)
        /\ strategyTotal(ret.value) <= call.goal.amount - Usd(2)
              => AllWithdrawnInFull(ret.value, call.portfolio)
        /\ strategyTotal(ret.value) >= call.goal.amount + Usd(2)
              => ForcedIncome(call.portfolio, call.goal) > call.goal.amount

\* a goal between the forced income and the resources, met with an RMD due
\* and all three accounts drawn on, none of them in full
C21_Witness ==
    /\ GrossGenerated /\ NoSeparatePrior(call.portfolio)
    /\ ret.value.rmdAmount > 0
    /\ ForcedIncome(call.portfolio, call.goal) < call.goal.amount
    /\ call.goal.amount < Resources(call.portfolio)
    /\ ret.value.traditionalWithdrawal > ret.value.rmdAmount
    /\ ret.value.taxableWithdrawal > 0
    /\ ret.value.rothWithdrawal > 0
    /\ ~AllWithdrawnInFull(ret.value, call.portfolio)
    /\ Abs(strategyTotal(ret.value) - call.goal.amount) < Usd(2)

----
\* Claims on the sums of calculateTaxBreakdown

\* C22: in the breakdown returned for any strategy, grossIncome is the sum of
\* the five amounts of the strategy at full value, totalTax is
\* ordinaryIncomeTax + capitalGainsTax + stateTax, afterTaxIncome is
\* grossIncome - totalTax, taxableIncome is max(0, traditional + pension +
\* taxable Social Security - deduction) + long-term gains, and
\* adjustedGrossIncome is traditional + pension + long-term gains + taxable
\* Social Security.
C22_AccountingIdentities ==
    BreakdownReturned =>
        /\ ret.value.grossIncome = strategyTotal(call.strategy)
        /\ ret.value.totalTax = ret.value.ordinaryIncomeTax + ret.value.capitalGainsTax
                                    + ret.value.stateTax
        /\ ret.value.afterTaxIncome = ret.value.grossIncome - ret.value.totalTax
        /\ ret.value.taxableIncome =
               Max(0, call.strategy.traditionalWithdrawal + call.strategy.pensionIncome
                          + ret.value.socialSecurityTaxable - ret.value.deductions)
                   + ret.value.longTermCapitalGains
        /\ ret.value.adjustedGrossIncome =
               call.strategy.traditionalWithdrawal + call.strategy.pensionIncome
                   + ret.value.longTermCapitalGains + ret.value.socialSecurityTaxable

\* a breakdown with every amount of the strategy and every tax positive
C22_Witness ==
    /\ BreakdownReturned
    /\ call.strategy.traditionalWithdrawal > 0 /\ call.strategy.taxableWithdrawal > 0
    /\ call.strategy.rothWithdrawal > 0 /\ call.strategy.socialSecurityIncome > 0
    /\ call.strategy.pensionIncome > 0
    /\ ret.value.ordinaryIncomeTax > 0 /\ ret.value.capitalGainsTax > 0
    /\ ret.value.stateTax > 0
    /\ ret.value.socialSecurityTaxable > 0 /\ ret.value.longTermCapitalGains > 0

----
\* calculateTaxBreakdown called on a strategy, and called again on the same
\* strategy with another Roth withdrawal.

RothStep == 7500

RothAmounts == {Usd(k * RothStep) : k \in 0..2}

RothInit == RateInit

\* the caller sets another Roth withdrawal and asks for the breakdown again
ChangeRothWithdrawal ==
    /\ call.fn = "calculateTaxBreakdown" /\ ret.done /\ ~prev.done
    /\ \E rothWithdrawal \in RothAmounts \ {call.strategy.rothWithdrawal} :
          call' = [call EXCEPT !.strategy.rothWithdrawal = rothWithdrawal]
    /\ prev' = [done |-> TRUE, value |-> ret.value]
    /\ frame' = [pc |-> "none", rothBefore |-> call.strategy.rothWithdrawal]
    /\ ret' = NoRet
    /\ UNCHANGED clock

RothNext ==
    \/ TaxBreakdownCall
    \/ ChangeRothWithdrawal

SpecRoth == RothInit /\ [][RothNext]_vars

\* C23: two breakdowns of strategies that differ in rothWithdrawal only agree
\* on adjustedGrossIncome, socialSecurityTaxable, taxableIncome,
\* ordinaryIncomeTax, capitalGainsTax, stateTax, totalTax, bracketFill and both
\* marginal rates, and their grossIncome and afterTaxIncome differ by exactly
\* the difference of the Roth withdrawals.
C23_RothTaxNeutral ==
    (BreakdownReturned /\ prev.done) =>
        /\ ret.value.adjustedGrossIncome = prev.value.adjustedGrossIncome
        /\ ret.value.socialSecurityTaxable = prev.value.socialSecurityTaxable
        /\ ret.value.taxableIncome = prev.value.taxableIncome
        /\ ret.value.ordinaryIncomeTax = prev.value.ordinaryIncomeTax
        /\ ret.value.capitalGainsTax = prev.value.capitalGainsTax
        /\ ret.value.stateTax = prev.value.stateTax
        /\ ret.value.totalTax = prev.value.totalTax
        /\ ret.value.bracketFill = prev.value.bracketFill
        /\ ret.value.marginalOrdinaryRate = prev.value.marginalOrdinaryRate
        /\ ret.value.marginalCapGainsRate = prev.value.marginalCapGainsRate
        /\ ret.value.grossIncome - prev.value.grossIncome
               = call.strategy.rothWithdrawal - frame.rothBefore
        /\ ret.value.afterTaxIncome - prev.value.afterTaxIncome
               = call.strategy.rothWithdrawal - frame.rothBefore

\* the Roth withdrawal was raised on a strategy whose Social Security is
\* partly taxable, below the 85% cap, and taxed
C23_Witness ==
    /\ BreakdownReturned /\ prev.done
    /\ call.strategy.rothWithdrawal > frame.rothBefore
    /\ ret.value.socialSecurityTaxable > 0
    /\ ret.value.socialSecurityTaxable < MulDiv(call.strategy.socialSecurityIncome, 85, 100) - Usd(1)
    /\ ret.value.ordinaryIncomeTax > 0 /\ ret.value.stateTax > 0
    /\ ret.value.grossIncome > prev.value.grossIncome

----
\* generateRetirementProjection with growth rates from -150% up, with a first
\* year set by hand that takes more than the accounts hold, and with planning
\* horizons on either side of the primary age.

HorizonBefore == 2
OverdrawnBy == 1000

BalanceGoals ==
    {[targetType |-> targetType, amount |-> Usd(60000), filingStatus |-> "single",
      primaryAge |-> primaryAge, useItemizedDeductions |-> FALSE, itemizedAmount |-> 0,
      stateTaxMethod |-> "none", stateTaxRate |-> 0, stateTaxFixedAmount |-> 0,
      planningHorizon |-> primaryAge + horizon] :
        targetType \in {"gross", "afterTax"},
        primaryAge \in {65, RMD_START_AGE - 1},
        horizon \in (0 - HorizonBefore)..MaxHorizon}

BalanceAssumptions ==
    {[growthRate |-> growthRate, inflationRate |-> 25, socialSecurityCOLA |-> 25] :
        growthRate \in {-1500, -1000, -50, 0, 50}}

\* a first year that takes more than each account holds
overdrawnStrategy(portfolio, goal) ==
    [traditionalWithdrawal |-> balanceOf(portfolio.traditional) + Usd(OverdrawnBy),
     taxableWithdrawal     |-> balanceOf(portfolio.taxable) + Usd(OverdrawnBy),
     rothWithdrawal        |-> balanceOf(portfolio.roth) + Usd(OverdrawnBy),
     socialSecurityIncome  |-> annualBenefitOf(portfolio.socialSecurity),
     pensionIncome         |-> annualBenefitOf(portfolio.pension),
     rmdAmount             |-> rmdRequiredOf(portfolio, goal),
     isSystemGenerated     |-> FALSE]

BalanceInit ==
    /\ \E portfolio \in ProjectionPortfolios, goal \in BalanceGoals,
          assumptions \in BalanceAssumptions :
          \E initial \in {NoInitial,
                          initialOf(handSetStrategy(portfolio, goal), portfolio, goal),
                          initialOf(overdrawnStrategy(portfolio, goal), portfolio, goal)} :
             call = [fn |-> "generateRetirementProjection", portfolio |-> portfolio,
                     goal |-> goal, assumptions |-> assumptions, initial |-> initial]
    /\ frame = NoFrame
    /\ ret = NoRet
    /\ prev = NoRet
    /\ clock = StartYear

BalanceNext ==
    \/ ProjectionStart
    \/ ProjectionYear
    \/ ProjectionReturn

SpecBalances == BalanceInit /\ [][BalanceNext]_vars

\* the year the loop has just recorded
LastYear(loc) == loc.years[Len(loc.years)]

\* a pass of the loop takes each balance to max(0, balance - withdrawal),
\* grown by the growth rate
BalancesUpdated ==
    YearPassed =>
        /\ frame'.traditionalBalance =
               timesOnePlus(Max(0, frame.traditionalBalance
                                       - LastYear(frame').withdrawals.traditional),
                            call.assumptions.growthRate)
        /\ frame'.taxableBalance =
               timesOnePlus(Max(0, frame.taxableBalance
                                       - LastYear(frame').withdrawals.taxable),
                            call.assumptions.growthRate)
        /\ frame'.rothBalance =
               timesOnePlus(Max(0, frame.rothBalance - LastYear(frame').withdrawals.roth),
                            call.assumptions.growthRate)

\* under a growth rate of -100% or more no balance, running or recorded, is
\* negative
BalancesNonNegative ==
    (InProjectionLoop /\ call.assumptions.growthRate >= -1000) =>
        /\ frame.traditionalBalance >= 0 /\ frame.taxableBalance >= 0
        /\ frame.rothBalance >= 0
        /\ \A i \in 1..Len(frame.years) :
              /\ frame.years[i].balances.traditional >= 0
              /\ frame.years[i].balances.taxable >= 0
              /\ frame.years[i].balances.roth >= 0
              /\ frame.years[i].balances.total >= 0

AgesAscending ==
    ProjectionReturned =>
        \A i \in 1..Len(ret.value.years) :
            ret.value.years[i].age = call.goal.primaryAge + i - 1

\* C24 as stated: each pass of the loop takes each balance to
\* max(0, balance - withdrawal) x (1 + growthRate), no balance is negative for
\* a growth rate >= -100%, and the projection returned has exactly
\* endAge - startAge + 1 years of consecutive ascending ages.
C24_BalanceUpdate ==
    /\ [][BalancesUpdated]_vars
    /\ [](BalancesNonNegative /\ AgesAscending)
    /\ [](ProjectionReturned =>
             Len(ret.value.years) = call.goal.planningHorizon - call.goal.primaryAge + 1)

\* C24 with the count of years held to 0 for a planning horizon below the
\* primary age: each pass of the loop takes each balance to
\* max(0, balance - withdrawal) x (1 + growthRate), no balance is negative for
\* a growth rate >= -100%, and the projection returned has
\* max(0, endAge - startAge + 1) years of consecutive ascending ages.
C24_BalanceUpdateFromStartAge ==
    /\ [][BalancesUpdated]_vars
    /\ [](BalancesNonNegative /\ AgesAscending)
    /\ [](ProjectionReturned =>
             Len(ret.value.years)
                 = Max(0, call.goal.planningHorizon - call.goal.primaryAge + 1))

\* a projection of three years whose first year, set by hand, took more than
\* the accounts held, under a negative growth rate
C24_Witness ==
    /\ ProjectionReturned
    /\ Len(ret.value.years) = 3
    /\ call.assumptions.growthRate < 0 /\ call.assumptions.growthRate > -1000
    /\ ret.value.years[1].withdrawals.traditional > ret.value.years[1].balances.traditional
    /\ ret.value.years[1].balances.traditional > 0
    /\ ret.value.years[2].balances.total = 0

----
\* components/IncomePlanner
\* The income planner keeps a working strategy. It is generated when the
\* component mounts, edited by the three withdrawal sliders, and regenerated
\* by the reset button, which is shown once the strategy has been edited.

SliderStep == 1000

\* lines 255-263: the strategy before the effect has run
emptyStrategy ==
    [traditionalWithdrawal |-> 0, taxableWithdrawal |-> 0, rothWithdrawal |-> 0,
     socialSecurityIncome |-> 0, pensionIncome |-> 0, rmdAmount |-> 0,
     isSystemGenerated |-> TRUE]

\* lines 301-314 without the RMD minimum
handleChangeAsGiven(strategy, field, value) ==
    [strategy EXCEPT ![field] = value, !.isSystemGenerated = FALSE]

\* lines 301-314: the strategy after a slider has been set to value
handleChange(strategy, field, value) ==
    [strategy EXCEPT
        ![field] = IF field = "traditionalWithdrawal" /\ strategy.rmdAmount > 0
                   THEN Max(value, strategy.rmdAmount)
                   ELSE value,
        !.isSystemGenerated = FALSE]

\* lines 440-468: the three sliders and the account each is bounded by
SliderFields == {"traditionalWithdrawal", "taxableWithdrawal", "rothWithdrawal"}

sliderMax(portfolio, field) ==
    IF field = "traditionalWithdrawal" THEN balanceOf(portfolio.traditional)
    ELSE IF field = "taxableWithdrawal" THEN balanceOf(portfolio.taxable)
    ELSE balanceOf(portfolio.roth)

\* lines 436, 450 and 464: a slider is rendered for an account that is not null
sliderShown(portfolio, field) ==
    IF field = "traditionalWithdrawal" THEN portfolio.traditional.present
    ELSE IF field = "taxableWithdrawal" THEN portfolio.taxable.present
    ELSE portfolio.roth.present

\* lines 214-234: a slider or its number input gives a value from 0 to max
SliderValues(max) == {v \in {0, Usd(SliderStep), max \div 2, max} : v <= max}

PlannerGoals ==
    {[targetType |-> targetType, amount |-> Usd(GoalStep), filingStatus |-> "single",
      primaryAge |-> primaryAge, useItemizedDeductions |-> FALSE, itemizedAmount |-> 0,
      stateTaxMethod |-> "none", stateTaxRate |-> 0, stateTaxFixedAmount |-> 0,
      planningHorizon |-> 95] :
        targetType \in {"gross", "afterTax"},
        primaryAge \in {65, RMD_START_AGE, MaxAge}}

PlannerPortfolios == {portfolio \in StrategyPortfolios : portfolio.pension.present}

NoEdit == [field |-> "none", value |-> 0]

PlannerInit ==
    /\ \E portfolio \in PlannerPortfolios, goal \in PlannerGoals :
          call = [fn |-> "IncomePlanner", portfolio |-> portfolio, goal |-> goal]
    /\ frame = [pc |-> "mounted", localStrategy |-> emptyStrategy, edit |-> NoEdit]
    /\ ret = NoRet
    /\ prev = NoRet
    /\ clock = 0

\* lines 266-271: the effect that runs when the component has mounted
PlannerGenerate ==
    /\ call.fn = "IncomePlanner" /\ frame.pc = "mounted"
    /\ frame' = [pc |-> "generated",
                 localStrategy |-> generateStrategy(call.portfolio, call.goal),
                 edit |-> NoEdit]
    /\ UNCHANGED <<call, ret, prev, clock>>

\* lines 301-314: a slider is moved
PlannerEdit ==
    /\ call.fn = "IncomePlanner" /\ frame.pc = "generated"
    /\ \E field \in {f \in SliderFields : sliderShown(call.portfolio, f)} :
          \E value \in SliderValues(sliderMax(call.portfolio, field)) :
             frame' = [frame EXCEPT
                          !.localStrategy = handleChange(@, field, value),
                          !.edit = [field |-> field, value |-> value]]
    /\ UNCHANGED <<call, ret, prev, clock>>

\* lines 317-322: the reset button, rendered for an edited strategy (line 412)
PlannerRegenerate ==
    /\ call.fn = "IncomePlanner" /\ frame.pc = "generated"
    /\ ~frame.localStrategy.isSystemGenerated
    /\ frame' = [frame EXCEPT
                    !.localStrategy = generateStrategy(call.portfolio, call.goal),
                    !.edit = NoEdit]
    /\ UNCHANGED <<call, ret, prev, clock>>

PlannerNext ==
    \/ PlannerGenerate
    \/ PlannerEdit
    \/ PlannerRegenerate

SpecPlanner == PlannerInit /\ [][PlannerNext]_vars

PlannerGenerated == call.fn = "IncomePlanner" /\ frame.pc = "generated"

\* a step that edits the working strategy
SliderMoved ==
    /\ PlannerGenerated
    /\ frame'.pc = "generated" /\ frame'.edit.field \in SliderFields

\* C25: once the planner has generated a strategy, the working strategy has
\* traditionalWithdrawal >= rmdAmount after every slider edit and every
\* regeneration; an edit of the traditional withdrawal to less than the RMD
\* leaves it at the RMD; and no edit changes rmdAmount.
C25_OverrideKeepsRMDFloor ==
    /\ [](PlannerGenerated =>
             /\ frame.localStrategy.traditionalWithdrawal >= frame.localStrategy.rmdAmount
             /\ (frame.edit.field = "traditionalWithdrawal"
                    /\ frame.edit.value < frame.localStrategy.rmdAmount)
                => frame.localStrategy.traditionalWithdrawal = frame.localStrategy.rmdAmount)
    /\ [][SliderMoved =>
             frame'.localStrategy.rmdAmount = frame.localStrategy.rmdAmount]_vars

\* the traditional slider was set below a positive RMD, on a strategy whose
\* taxable withdrawal is the whole balance and whose Roth withdrawal is 1,000
C25_Witness ==
    /\ PlannerGenerated
    /\ frame.localStrategy.rmdAmount > 0
    /\ frame.edit.field = "traditionalWithdrawal"
    /\ frame.edit.value < frame.localStrategy.rmdAmount
    /\ frame.localStrategy.traditionalWithdrawal = frame.localStrategy.rmdAmount
    /\ frame.localStrategy.taxableWithdrawal = balanceOf(call.portfolio.taxable)
    /\ frame.localStrategy.taxableWithdrawal > 0
    /\ frame.localStrategy.rothWithdrawal = Usd(SliderStep)

----
\* Claims on the stacking of capital gains

RECURSIVE progressiveTaxFrom(_, _, _)
\* the tax on the part of income x that lies in the brackets from index i on
progressiveTaxFrom(brackets, i, x) ==
    IF i > Len(brackets) THEN 0
    ELSE Frac(Max(0, Min(x, brackets[i].max) - brackets[i].min), brackets[i].rate, 100)
             + progressiveTaxFrom(brackets, i + 1, x)

\* F(x): the progressive tax of x under the capital-gains bracket table
progressiveGainsTax(x, filingStatus) ==
    progressiveTaxFrom(CAPITAL_GAINS_BRACKETS[filingStatus], 1, x)

RECURSIVE SumBreakdownAmount(_)
SumBreakdownAmount(breakdown) ==
    IF breakdown = << >> THEN 0
    ELSE Head(breakdown).amount + SumBreakdownAmount(Tail(breakdown))

RECURSIVE SumBreakdownTax(_)
SumBreakdownTax(breakdown) ==
    IF breakdown = << >> THEN 0
    ELSE Head(breakdown).tax + SumBreakdownTax(Tail(breakdown))

\* C26: for every filing status, ordinary income O >= 0 and gains G >= 0,
\* calculateCapitalGainsTax(G, O) returns F(O + G) - F(O), F the progressive
\* tax under the capital-gains brackets; the amounts of bracketBreakdown sum
\* to G and its tax entries sum to the tax returned.
C26_StackedDifference ==
    CapGainsReturned =>
        /\ ret.value.tax =
               progressiveGainsTax(call.taxableOrdinaryIncome + call.longTermCapitalGains,
                                   call.filingStatus)
                   - progressiveGainsTax(call.taxableOrdinaryIncome, call.filingStatus)
        /\ SumBreakdownAmount(ret.value.bracketBreakdown) = call.longTermCapitalGains
        /\ SumBreakdownTax(ret.value.bracketBreakdown) = ret.value.tax

\* gains that start in the 0% bracket on top of ordinary income and reach
\* the 20% bracket
C26_Witness ==
    /\ CapGainsReturned
    /\ call.taxableOrdinaryIncome > 0
    /\ call.taxableOrdinaryIncome < CAPITAL_GAINS_BRACKETS[call.filingStatus][1].max
    /\ Len(ret.value.bracketBreakdown) = 3
    /\ ret.value.bracketBreakdown[3].tax > 0

----
\* Claims on the strategy returned and the portfolio

StrategyReturned == call.fn = "generateStrategy" /\ ret.done

WithinBalance(withdrawal, slot) == withdrawal >= 0 /\ withdrawal <= balanceOf(slot)

\* C27: for a portfolio without a separate prior-year balance, the strategy
\* generateStrategy returns, for a gross goal or for an after-tax goal after
\* the refinement, has each of the three withdrawals between 0 and the balance
\* of its account and Social Security and pension income equal to the annual
\* benefits, and validateStrategy finds it valid.
C27_StrategyRespectsPortfolio ==
    (StrategyReturned /\ NoSeparatePrior(call.portfolio)) =>
        /\ WithinBalance(ret.value.traditionalWithdrawal, call.portfolio.traditional)
        /\ WithinBalance(ret.value.taxableWithdrawal, call.portfolio.taxable)
        /\ WithinBalance(ret.value.rothWithdrawal, call.portfolio.roth)
        /\ ret.value.socialSecurityIncome = annualBenefitOf(call.portfolio.socialSecurity)
        /\ ret.value.pensionIncome = annualBenefitOf(call.portfolio.pension)
        /\ validateStrategy(ret.value, call.portfolio).valid

\* an after-tax goal whose refinement raised the withdrawals until the Roth
\* and the traditional account were used in full, with an RMD due
C27_Witness ==
    /\ StrategyReturned /\ NoSeparatePrior(call.portfolio)
    /\ call.goal.targetType = "afterTax"
    /\ frame.iterations >= 2
    /\ ret.value.rmdAmount > 0
    /\ ret.value.rothWithdrawal > 0
    /\ ret.value.rothWithdrawal = balanceOf(call.portfolio.roth)
    /\ ret.value.traditionalWithdrawal = balanceOf(call.portfolio.traditional)
    /\ ret.value.taxableWithdrawal > 0
    /\ validateStrategy(ret.value, call.portfolio).valid

----
\* generateRetirementProjection on taxable accounts whose cost basis is 0,
\* part of the balance and the whole balance, with growth rates from 0 to 100%.

BasisBalance == 100000

BasisPortfolios ==
    [traditional : {NoTraditional, Traditional(Usd(200000))},
     taxable : {Taxable(Usd(BasisBalance), Usd(costBasis)) :
                   costBasis \in {0, 1, BasisBalance \div 2, BasisBalance}},
     roth : {NoRoth, Roth(Usd(30000))},
     socialSecurity : {NoSocialSecurity},
     pension : {NoPension, Pension(Usd(12000), 20)}]

BasisAssumptions ==
    {[growthRate |-> growthRate, inflationRate |-> 25, socialSecurityCOLA |-> 25] :
        growthRate \in {0, 1, 50, 1000}}

BasisInit ==
    /\ \E portfolio \in BasisPortfolios, goal \in ProjectionGoals,
          assumptions \in BasisAssumptions :
          \E initial \in {NoInitial,
                          initialOf(overdrawnStrategy(portfolio, goal), portfolio, goal)} :
             call = [fn |-> "generateRetirementProjection", portfolio |-> portfolio,
                     goal |-> goal, assumptions |-> assumptions, initial |-> initial]
    /\ frame = NoFrame
    /\ ret = NoRet
    /\ prev = NoRet
    /\ clock = StartYear

BasisNext ==
    \/ ProjectionStart
    \/ ProjectionYear
    \/ ProjectionReturn

SpecBasis == BasisInit /\ [][BasisNext]_vars

\* the taxable snapshot of the year the loop is about to run
TaxableSnapshot == yearPortfolioOf(frame, pensionColaOf(call.portfolio)).taxable

YearAhead == InProjectionLoop /\ frame.pc = "loop" /\ frame.age <= call.goal.planningHorizon

\* C28: when the initial taxable account has 0 <= costBasis <= balance and the
\* growth rate is between 0 and 100%, the taxable snapshot built for every
\* projected year has 0 <= costBasis <= balance.
C28_CostBasisWithinBalance ==
    (YearAhead /\ TaxableSnapshot.present) =>
        /\ TaxableSnapshot.costBasis >= 0
        /\ TaxableSnapshot.costBasis <= TaxableSnapshot.balance

\* the snapshot of a third year, after two years of withdrawals from the
\* taxable account and of growth, with a cost basis strictly inside the balance
C28_Witness ==
    /\ YearAhead /\ TaxableSnapshot.present
    /\ Len(frame.years) = 2
    /\ call.assumptions.growthRate > 0
    /\ frame.years[1].withdrawals.taxable > 0
    /\ frame.years[2].withdrawals.taxable > 0
    /\ TaxableSnapshot.costBasis > 0
    /\ TaxableSnapshot.costBasis < TaxableSnapshot.balance
    /\ TaxableSnapshot.costBasis # call.portfolio.taxable.costBasis

----
\* Claims on the years after the accounts are empty

\* the year just recorded shows no balance, no withdrawal from an account and
\* no RMD
NothingRecorded(yearData) ==
    /\ yearData.balances.traditional = 0 /\ yearData.balances.taxable = 0
    /\ yearData.balances.roth = 0 /\ yearData.balances.total = 0
    /\ yearData.withdrawals.traditional = 0 /\ yearData.withdrawals.taxable = 0
    /\ yearData.withdrawals.roth = 0
    /\ yearData.rmdAmount = 0

\* a pass of the loop that starts with nothing in the three accounts records
\* nothing and ends with nothing in them
DepletedYearStaysDepleted ==
    (YearPassed /\ ~call.initial.present /\ totalBalanceOf(frame) = 0) =>
        /\ NothingRecorded(LastYear(frame'))
        /\ LastYear(frame').withdrawals.total
               = LastYear(frame').withdrawals.socialSecurity
                     + LastYear(frame').withdrawals.pension
        /\ totalBalanceOf(frame') = 0

\* C29: in a projection without a first-year override, a year that starts
\* with a summed account balance of 0 records zero balances, zero
\* traditional, taxable and Roth withdrawals and rmdAmount 0, its only income
\* being Social Security and pension, and so does every later year, for any
\* growth rate and either goal type.
C29_DepletionAbsorbing ==
    [][DepletedYearStaysDepleted]_vars

\* two years in a row that started with nothing left and recorded only
\* Social Security and pension income, under an after-tax goal
C29_Witness ==
    /\ InProjectionLoop /\ ~call.initial.present
    /\ call.goal.targetType = "afterTax"
    /\ Len(frame.years) = 3
    /\ frame.years[1].balances.total > 0
    /\ NothingRecorded(frame.years[2]) /\ NothingRecorded(frame.years[3])
    /\ frame.years[3].withdrawals.socialSecurity > 0
    /\ frame.years[3].withdrawals.pension > 0

----
\* Claims on the size of the tax

NoStateTax == call.goal.stateTaxMethod = "none"

BasisWithinBalance(portfolio) ==
    portfolio.taxable.present =>
        /\ portfolio.taxable.costBasis >= 0
        /\ portfolio.taxable.costBasis <= portfolio.taxable.balance

\* C30: for a strategy of non-negative amounts, a taxable account with
\* 0 <= costBasis <= balance and no state tax, the breakdown has
\* 0 <= totalTax <= grossIncome and adjustedGrossIncome <= grossIncome, so
\* afterTaxIncome lies between 0 and grossIncome and effectiveRate between 0
\* and 1.
C30_TaxBoundedByIncome ==
    (BreakdownReturned /\ NoStateTax /\ BasisWithinBalance(call.portfolio)) =>
        /\ ret.value.totalTax >= 0
        /\ ret.value.totalTax <= ret.value.grossIncome
        /\ ret.value.adjustedGrossIncome <= ret.value.grossIncome
        /\ ret.value.afterTaxIncome >= 0
        /\ ret.value.afterTaxIncome <= ret.value.grossIncome
        /\ ret.value.effectiveRate >= 0
        /\ ret.value.effectiveRate <= RATIO

\* a taxed strategy with no Roth withdrawal whose taxable withdrawal is the
\* balance plus a dollar and whose Social Security is taxable
C30_Witness ==
    /\ BreakdownReturned /\ NoStateTax /\ BasisWithinBalance(call.portfolio)
    /\ call.strategy.rothWithdrawal = 0
    /\ call.strategy.taxableWithdrawal > balanceOf(call.portfolio.taxable)
    /\ ret.value.longTermCapitalGains > 0
    /\ ret.value.socialSecurityTaxable > 0
    /\ ret.value.capitalGainsTax > 0 /\ ret.value.ordinaryIncomeTax > 0
    /\ ret.value.adjustedGrossIncome < ret.value.grossIncome

====
